---- MODULE Spec2Model ----
(***************************************************************************)
(* Model of the su-compat interception handlers (sucompat code carried in  *)
(* src/drivers/input/fingerprint/goodix/gf_spi.h, lines 921-1138) and of   *)
(* the susfs registries (src/fs/susfs.c).                                  *)
(*                                                                         *)
(* Strings are sequences of byte values; a C array holding a string is the *)
(* string followed by a 0 byte.                                            *)
(***************************************************************************)
EXTENDS Integers, Sequences, FiniteSets, TLC

VARIABLES
  ksu_sucompat_non_kp,   \* global hook-enabled flag (gf_spi.h:948)
  allow_list,            \* identities the allow-list holds (allowlist.c, not in src/)
  call,                  \* the interception call in progress: request, what it read, outcome
  LH_TRY_UMOUNT_PATH,    \* deferred-unmount ledger, head first (susfs.c:236)
  reg_hist,              \* history: records of the register calls that returned 0, in call order
  umount_log,            \* ksu_try_umount calls issued by the last replay, in issue order
  ucall,                 \* the last ledger operation: arguments, ledger before it, result
  SUS_PATH_HLIST,        \* path registry, in iteration order (susfs.c:37)
  sus_path_inodes,       \* objects whose i_state carries INODE_STATE_SUS_PATH
  path_regs,             \* history: pathnames of the susfs_add_sus_path calls that returned 0
  path_failed,           \* history: whether a susfs_add_sus_path call has returned non-zero
  pcall,                 \* the last path-registry operation: arguments, state before it, result
  LH_SUS_MOUNT,          \* mount registry, head first (susfs.c:142)
  sus_mount_inodes,      \* objects whose i_state carries INODE_STATE_SUS_MOUNT
  mcall,                 \* the last mount-registry operation: arguments, state before it, result
  thr,                   \* the call each thread is in, or the call it has made
  susfs_spin_lock,       \* the thread holding susfs_spin_lock (susfs.c:19); 0 when free
  my_uname,              \* the spoofing store (susfs.c:290)
  susfs_uname_spin_lock, \* the thread holding susfs_uname_spin_lock (susfs.c:289); 0 when free
  uname_set,             \* history: the record of the last susfs_set_uname call that returned 0
  ncall                  \* the last spoofing-store operation: arguments, store before it, result

suVars == <<ksu_sucompat_non_kp, allow_list, call>>
umountVars == <<LH_TRY_UMOUNT_PATH, reg_hist, umount_log, ucall>>
pathVars == <<SUS_PATH_HLIST, sus_path_inodes, path_regs, path_failed, pcall>>
mountVars == <<LH_SUS_MOUNT, sus_mount_inodes, mcall>>
unameVars == <<my_uname, susfs_uname_spin_lock, uname_set, ncall>>
susVars == <<pathVars, mountVars, thr, susfs_spin_lock, unameVars>>
vars == <<ksu_sucompat_non_kp, allow_list, call, LH_TRY_UMOUNT_PATH, reg_hist, umount_log, ucall,
          SUS_PATH_HLIST, sus_path_inodes, path_regs, path_failed, pcall,
          LH_SUS_MOUNT, sus_mount_inodes, mcall, thr, susfs_spin_lock,
          my_uname, susfs_uname_spin_lock, uname_set, ncall>>

----------------------------------------------------------------------------
(* Bounds of the model *)

\* longest run of extra bytes appended to the trigger path in a request
MaxExtra == 1
\* number of distinct pathnames offered to the ledger
NumPaths == 3
\* number of distinct pathnames offered to the path registry
NumSusPaths == 2

----------------------------------------------------------------------------
(* Program constants *)

\* "/system/bin/su"
SU_PATH == <<47, 115, 121, 115, 116, 101, 109, 47, 98, 105, 110, 47, 115, 117>>
\* "/system/bin/sh"
SH_PATH == <<47, 115, 121, 115, 116, 101, 109, 47, 98, 105, 110, 47, 115, 104>>
\* "/data/adb/ksud"
KSUD_PATH == <<47, 100, 97, 116, 97, 47, 97, 100, 98, 47, 107, 115, 117, 100>>

\* a char array initialised from a string literal: the bytes and the terminator
CArray(s) == s \o <<0>>
\* sizeof(su) in ksu_sucompat_common
sizeof_su == Len(CArray(SU_PATH))
\* sizeof(path), path being char[sizeof(su) + 1]
sizeof_path == sizeof_su + 1

\* the C string held by a byte array: the bytes before the first 0
CStr(a) ==
  IF \E i \in 1..Len(a) : a[i] = 0
  THEN SubSeq(a, 1, (CHOOSE i \in 1..Len(a) : a[i] = 0 /\ \A j \in 1..(i-1) : a[j] # 0) - 1)
  ELSE a

\* memcmp(a, b, n): 0 when the first n bytes agree, else the difference at the first
\* byte that differs
memcmp(a, b, n) ==
  IF \A i \in 1..n : a[i] = b[i] THEN 0
  ELSE LET k == CHOOSE i \in 1..n : a[i] # b[i] /\ \A j \in 1..(i-1) : a[j] = b[j]
       IN a[k] - b[k]

----------------------------------------------------------------------------
(* Caller identities and the allow-list *)

Uids == {2000, 10010, 110010}

ksu_is_allow_uid(uid) == uid \in allow_list

----------------------------------------------------------------------------
(* User memory behind the caller's filename pointer.                       *)
(* str: the C string at the pointer; tail: value of the bytes after its    *)
(* terminator; mapped: how many bytes from the pointer on are readable;    *)
(* resident: whether those bytes can be read without taking a page fault.  *)

ByteAt(m, i) ==
  IF i <= Len(m.str) THEN m.str[i]
  ELSE IF i = Len(m.str) + 1 THEN 0
  ELSE m.tail

\* ksu_copy_from_user_nofault: fails when the read would fault
ksu_copy_from_user_nofault(m, count) ==
  IF m.resident /\ m.mapped >= count
  THEN [ret |-> 0, dst |-> [i \in 1..count |-> ByteAt(m, i)]]
  ELSE [ret |-> -14, dst |-> <<>>]

\* copy_from_user: returns the number of bytes it could not copy
copy_from_user(m, count) ==
  IF m.mapped >= count
  THEN [ret |-> 0, dst |-> [i \in 1..count |-> ByteAt(m, i)]]
  ELSE [ret |-> count - m.mapped, dst |-> <<>>]

\* variant: the fallback copy runs whether or not the fast read faulted
ksu_copy_from_user_retry_both(m, count) ==
  LET s == copy_from_user(m, count)
  IN [ret |-> s.ret, dst |-> s.dst, slow |-> TRUE]

\* variant: the result of the fallback copy is dropped and the read reported as good
ksu_copy_from_user_retry_unchecked(m, count) ==
  [ret |-> 0, dst |-> [i \in 1..count |-> ByteAt(m, i)], slow |-> ~(m.resident /\ m.mapped >= count)]

ksu_copy_from_user_retry(m, count) ==
  LET fast == ksu_copy_from_user_nofault(m, count) IN
  IF fast.ret = 0
  THEN [ret |-> 0, dst |-> fast.dst, slow |-> FALSE]
  ELSE LET s == copy_from_user(m, count)
       IN [ret |-> s.ret, dst |-> s.dst, slow |-> TRUE]

\* userspace_stack_buffer: writes d below the user stack pointer; NULL when the write faults
userspace_stack_buffer(d, stack_ok) ==
  IF stack_ok THEN [ptr |-> "ustack", stack |-> d]
  ELSE [ptr |-> "NULL", stack |-> <<>>]

sh_user_path(stack_ok) == userspace_stack_buffer(CArray(SH_PATH), stack_ok)

ksud_user_path(stack_ok) == userspace_stack_buffer(CArray(KSUD_PATH), stack_ok)

----------------------------------------------------------------------------
(* The interception handlers *)

\* outcome of a handler that returns without touching the request
PassThrough(req) ==
  [filename |-> req.ptr, ustack |-> <<>>, escalated |-> FALSE, ret |-> 0]

\* variant: the allow-list is not consulted
ksu_sucompat_common_any_uid(req, escalate) ==
  IF ~ksu_sucompat_non_kp THEN PassThrough(req)
  ELSE IF req.fu_null THEN PassThrough(req)
  ELSE LET rd == ksu_copy_from_user_retry(req.mem, sizeof_path) IN
    IF rd.ret # 0 THEN PassThrough(req)
    ELSE LET path == [rd.dst EXCEPT ![sizeof_path] = 0] IN
      IF memcmp(path, CArray(SU_PATH), sizeof_su) # 0 THEN PassThrough(req)
      ELSE IF escalate
        THEN LET p == ksud_user_path(req.stack_ok)
             IN [filename |-> p.ptr, ustack |-> p.stack, escalated |-> TRUE, ret |-> 0]
        ELSE LET p == sh_user_path(req.stack_ok)
             IN [filename |-> p.ptr, ustack |-> p.stack, escalated |-> FALSE, ret |-> 0]

\* variant: the enabled flag is not consulted
ksu_sucompat_common_always_on(req, escalate) ==
  IF ~ksu_is_allow_uid(req.uid) THEN PassThrough(req)
  ELSE IF req.fu_null THEN PassThrough(req)
  ELSE LET rd == ksu_copy_from_user_retry(req.mem, sizeof_path) IN
    IF rd.ret # 0 THEN PassThrough(req)
    ELSE LET path == [rd.dst EXCEPT ![sizeof_path] = 0] IN
      IF memcmp(path, CArray(SU_PATH), sizeof_su) # 0 THEN PassThrough(req)
      ELSE IF escalate
        THEN LET p == ksud_user_path(req.stack_ok)
             IN [filename |-> p.ptr, ustack |-> p.stack, escalated |-> TRUE, ret |-> 0]
        ELSE LET p == sh_user_path(req.stack_ok)
             IN [filename |-> p.ptr, ustack |-> p.stack, escalated |-> FALSE, ret |-> 0]

\* variant: a failed read of the caller's path is handed back as the handler's result
ksu_sucompat_common_ret_fault(req, escalate) ==
  IF ~ksu_sucompat_non_kp THEN PassThrough(req)
  ELSE IF ~ksu_is_allow_uid(req.uid) THEN PassThrough(req)
  ELSE IF req.fu_null THEN PassThrough(req)
  ELSE LET rd == ksu_copy_from_user_retry(req.mem, sizeof_path) IN
    IF rd.ret # 0 THEN [PassThrough(req) EXCEPT !.ret = -14]
    ELSE LET path == [rd.dst EXCEPT ![sizeof_path] = 0] IN
      IF memcmp(path, CArray(SU_PATH), sizeof_su) # 0 THEN PassThrough(req)
      ELSE IF escalate
        THEN LET p == ksud_user_path(req.stack_ok)
             IN [filename |-> p.ptr, ustack |-> p.stack, escalated |-> TRUE, ret |-> 0]
        ELSE LET p == sh_user_path(req.stack_ok)
             IN [filename |-> p.ptr, ustack |-> p.stack, escalated |-> FALSE, ret |-> 0]

ksu_sucompat_common(req, escalate) ==
  IF ~ksu_sucompat_non_kp THEN PassThrough(req)
  ELSE IF ~ksu_is_allow_uid(req.uid) THEN PassThrough(req)
  ELSE IF req.fu_null THEN PassThrough(req)
  ELSE LET rd == ksu_copy_from_user_retry(req.mem, sizeof_path) IN
    IF rd.ret # 0 THEN PassThrough(req)
    ELSE LET path == [rd.dst EXCEPT ![sizeof_path] = 0] IN
      IF memcmp(path, CArray(SU_PATH), sizeof_su) # 0 THEN PassThrough(req)
      ELSE IF escalate
        THEN LET p == ksud_user_path(req.stack_ok)
             IN [filename |-> p.ptr, ustack |-> p.stack, escalated |-> TRUE, ret |-> 0]
        ELSE LET p == sh_user_path(req.stack_ok)
             IN [filename |-> p.ptr, ustack |-> p.stack, escalated |-> FALSE, ret |-> 0]

ksu_handle_faccessat(req) == ksu_sucompat_common(req, FALSE)

ksu_handle_stat(req) == ksu_sucompat_common(req, FALSE)

ksu_handle_execve_sucompat(req) == ksu_sucompat_common(req, TRUE)

\* filename->name: the name, its terminator, and the rest of the name buffer
NameBuf(s) == [i \in 1..(Len(s) + sizeof_path) |-> IF i <= Len(s) THEN s[i] ELSE 0]

\* ksu_handle_execveat_sucompat (struct filename variant): the name lives in kernel
\* memory and is overwritten in place
ksu_handle_execveat_sucompat(req) ==
  LET pass == [name |-> req.name, escalated |-> FALSE, ret |-> 0] IN
  IF ~ksu_sucompat_non_kp THEN pass
  ELSE IF ~ksu_is_allow_uid(req.uid) THEN pass
  ELSE IF req.fp_null THEN pass
  ELSE IF req.is_err THEN pass
  ELSE IF memcmp(NameBuf(req.name), CArray(SU_PATH), sizeof_su) # 0 THEN pass
  ELSE [name |-> CStr(CArray(KSUD_PATH)), escalated |-> TRUE, ret |-> 0]

\* the public devpts entry point ("dummified")
ksu_handle_devpts(req) == [sid |-> req.sid, ret |-> 0]

\* variant: the caller's identity range is not looked at
ksu_handle_devpts_inner_any_range(req) ==
  LET pass == [sid |-> req.sid, ret |-> 0] IN
  IF ~ksu_sucompat_non_kp THEN pass
  ELSE IF ~req.has_mm THEN pass
  ELSE IF ~ksu_is_allow_uid(req.uid) THEN pass
  ELSE IF req.ksu_devpts_sid # 0 /\ ~req.sec_null
    THEN [sid |-> req.ksu_devpts_sid, ret |-> 0]
    ELSE pass

\* __ksu_handle_devpts; sid 0 in the request's sec_null case stands for "no security struct"
ksu_handle_devpts_inner(req) ==
  LET pass == [sid |-> req.sid, ret |-> 0] IN
  IF ~ksu_sucompat_non_kp THEN pass
  ELSE IF ~req.has_mm THEN pass
  ELSE IF req.uid % 100000 < 10000 THEN pass
  ELSE IF ~ksu_is_allow_uid(req.uid) THEN pass
  ELSE IF req.ksu_devpts_sid # 0 /\ ~req.sec_null
    THEN [sid |-> req.ksu_devpts_sid, ret |-> 0]
    ELSE pass

----------------------------------------------------------------------------
(* Requests the intercepted system calls can present *)

\* the strict prefixes of the trigger path, the empty string included
Prefixes == { SubSeq(SU_PATH, 1, n) : n \in 0..(Len(SU_PATH) - 1) }
\* the trigger path with exactly one byte changed
OneByteOff == { [SU_PATH EXCEPT ![i] = SU_PATH[i] + 1] : i \in 1..Len(SU_PATH) }
\* the trigger path followed by extra bytes
Extended == { SU_PATH \o [i \in 1..k |-> 100] : k \in 1..MaxExtra }

TestPaths == {SU_PATH, SH_PATH, KSUD_PATH} \cup Prefixes \cup OneByteOff \cup Extended

\* memory behind a valid string pointer: mapped exactly to the end of the string, or
\* beyond the handler's read; or not readable at all (a dangling pointer)
UserMems ==
  { [str |-> s, tail |-> t, mapped |-> m, resident |-> r] :
      s \in TestPaths, t \in {0, 88}, m \in {sizeof_path + 1}, r \in BOOLEAN }
  \cup { [str |-> s, tail |-> 0, mapped |-> Len(s) + 1, resident |-> r] :
      s \in TestPaths, r \in BOOLEAN }
  \cup { [str |-> s, tail |-> 0, mapped |-> 0, resident |-> FALSE] : s \in {SU_PATH} }

NoMem == [str |-> <<>>, tail |-> 0, mapped |-> 0, resident |-> FALSE]

\* requests of faccessat, stat and execve: filename_user itself may be NULL, the user
\* pointer it holds may be NULL, and the write below the user stack may fault
PathRequests ==
  { [uid |-> u, fu_null |-> FALSE, ptr |-> "uaddr", mem |-> m, stack_ok |-> k] :
      u \in Uids, m \in UserMems, k \in BOOLEAN }
  \cup { [uid |-> u, fu_null |-> FALSE, ptr |-> "NULL", mem |-> NoMem, stack_ok |-> k] :
      u \in Uids, k \in BOOLEAN }
  \cup { [uid |-> u, fu_null |-> TRUE, ptr |-> "none", mem |-> NoMem, stack_ok |-> TRUE] :
      u \in Uids }

FilenameRequests ==
  { [uid |-> u, fp_null |-> FALSE, is_err |-> FALSE, name |-> s] : u \in Uids, s \in TestPaths }
  \cup { [uid |-> u, fp_null |-> n, is_err |-> ~n, name |-> <<>>] : u \in Uids, n \in BOOLEAN }

DevptsRequests ==
  { [uid |-> u, has_mm |-> h, ksu_devpts_sid |-> d, sec_null |-> FALSE, sid |-> 3] :
      u \in Uids, h \in BOOLEAN, d \in {0, 7} }
  \cup { [uid |-> u, has_mm |-> TRUE, ksu_devpts_sid |-> d, sec_null |-> TRUE, sid |-> 0] :
      u \in Uids, d \in {0, 7} }

----------------------------------------------------------------------------
(* State machine of the interception side *)

NoCall == [op |-> "none"]

InitSu ==
  /\ ksu_sucompat_non_kp = TRUE
  /\ allow_list = {}
  /\ call = NoCall

\* what a handler call leaves behind: the request, the flag and the allow-list answer
\* as they stood when the handler ran, and the handler's outcome
Called(op, req, out) ==
  [op |-> op, req |-> req, enabled |-> ksu_sucompat_non_kp,
   allowed |-> ksu_is_allow_uid(req.uid), out |-> out]

ksu_sucompat_init ==
  /\ ksu_sucompat_non_kp' = TRUE
  /\ UNCHANGED <<allow_list, call, umountVars, susVars>>

ksu_sucompat_exit ==
  /\ ksu_sucompat_non_kp' = FALSE
  /\ UNCHANGED <<allow_list, call, umountVars, susVars>>

\* allow-list mutation by the control channel
Grant ==
  \E u \in Uids :
    /\ u \notin allow_list
    /\ allow_list' = allow_list \cup {u}
    /\ UNCHANGED <<ksu_sucompat_non_kp, call, umountVars, susVars>>

Revoke ==
  \E u \in allow_list :
    /\ allow_list' = allow_list \ {u}
    /\ UNCHANGED <<ksu_sucompat_non_kp, call, umountVars, susVars>>

Faccessat ==
  /\ call = NoCall
  /\ \E req \in PathRequests : call' = Called("faccessat", req, ksu_handle_faccessat(req))
  /\ UNCHANGED <<ksu_sucompat_non_kp, allow_list, umountVars, susVars>>

Stat ==
  /\ call = NoCall
  /\ \E req \in PathRequests : call' = Called("stat", req, ksu_handle_stat(req))
  /\ UNCHANGED <<ksu_sucompat_non_kp, allow_list, umountVars, susVars>>

Execve ==
  /\ call = NoCall
  /\ \E req \in PathRequests : call' = Called("execve", req, ksu_handle_execve_sucompat(req))
  /\ UNCHANGED <<ksu_sucompat_non_kp, allow_list, umountVars, susVars>>

Execveat ==
  /\ call = NoCall
  /\ \E req \in FilenameRequests :
       call' = Called("execveat", req, ksu_handle_execveat_sucompat(req))
  /\ UNCHANGED <<ksu_sucompat_non_kp, allow_list, umountVars, susVars>>

Devpts ==
  /\ call = NoCall
  /\ \E req \in DevptsRequests : call' = Called("devpts", req, ksu_handle_devpts(req))
  /\ UNCHANGED <<ksu_sucompat_non_kp, allow_list, umountVars, susVars>>

DevptsInner ==
  /\ call = NoCall
  /\ \E req \in DevptsRequests : call' = Called("__devpts", req, ksu_handle_devpts_inner(req))
  /\ UNCHANGED <<ksu_sucompat_non_kp, allow_list, umountVars, susVars>>

\* the intercepted system call carries on with the request as the handler left it
SyscallResume ==
  /\ call # NoCall
  /\ call' = NoCall
  /\ UNCHANGED <<ksu_sucompat_non_kp, allow_list, umountVars, susVars>>

NextSu ==
  \/ ksu_sucompat_init
  \/ ksu_sucompat_exit
  \/ Grant
  \/ Revoke
  \/ Faccessat
  \/ Stat
  \/ Execve
  \/ Execveat
  \/ Devpts
  \/ DevptsInner
  \/ SyscallResume

----------------------------------------------------------------------------
(* Deferred-unmount ledger (susfs try_umount) *)

TRY_UMOUNT_DEFAULT == 0
TRY_UMOUNT_DETACH == 1
MNT_DETACH == 2

\* pathnames offered to the ledger, and the modes a caller can send
Paths == 1..NumPaths
Modes == {TRY_UMOUNT_DEFAULT, TRY_UMOUNT_DETACH, 2}

\* variant: list_add, which links the new record at the head
list_add(new, head) == <<new>> \o head

\* list_add_tail on a list kept head first
list_add_tail(new, head) == Append(head, new)

\* variant: no scan for a record of the same pathname
susfs_add_try_umount_no_scan(a) ==
  IF ~a.copy_ok THEN [ret |-> 1, list |-> LH_TRY_UMOUNT_PATH]
  ELSE IF ~a.alloc_ok THEN [ret |-> 1, list |-> LH_TRY_UMOUNT_PATH]
  ELSE [ret |-> 0, list |-> list_add_tail(a.info, LH_TRY_UMOUNT_PATH)]

\* variant: a duplicate pathname is reported with a result of its own (EEXIST)
susfs_add_try_umount_eexist(a) ==
  IF ~a.copy_ok THEN [ret |-> 1, list |-> LH_TRY_UMOUNT_PATH]
  ELSE IF \E i \in 1..Len(LH_TRY_UMOUNT_PATH) :
            LH_TRY_UMOUNT_PATH[i].target_pathname = a.info.target_pathname
    THEN [ret |-> 17, list |-> LH_TRY_UMOUNT_PATH]
  ELSE IF ~a.alloc_ok THEN [ret |-> 1, list |-> LH_TRY_UMOUNT_PATH]
  ELSE [ret |-> 0, list |-> list_add_tail(a.info, LH_TRY_UMOUNT_PATH)]

\* susfs_add_try_umount: a is the call (the caller's record, whether copying it in
\* and allocating succeed); yields the result and the ledger it leaves
susfs_add_try_umount(a) ==
  IF ~a.copy_ok THEN [ret |-> 1, list |-> LH_TRY_UMOUNT_PATH]
  ELSE IF \E i \in 1..Len(LH_TRY_UMOUNT_PATH) :
            LH_TRY_UMOUNT_PATH[i].target_pathname = a.info.target_pathname
    THEN [ret |-> 1, list |-> LH_TRY_UMOUNT_PATH]
  ELSE IF ~a.alloc_ok THEN [ret |-> 1, list |-> LH_TRY_UMOUNT_PATH]
  ELSE [ret |-> 0, list |-> list_add_tail(a.info, LH_TRY_UMOUNT_PATH)]

\* the body of the replay loop for one record: the ksu_try_umount calls it issues
UmountOne(info, target_uid) ==
  IF info.mnt_mode = TRY_UMOUNT_DEFAULT
    THEN <<[mnt |-> info.target_pathname, check_mnt |-> FALSE, flags |-> 0, uid |-> target_uid]>>
  ELSE IF info.mnt_mode = TRY_UMOUNT_DETACH
    THEN <<[mnt |-> info.target_pathname, check_mnt |-> FALSE, flags |-> MNT_DETACH,
            uid |-> target_uid]>>
  ELSE <<>>

\* variant: the walk ends at the first record whose mode is not supported
RECURSIVE ForEachReverse_stop(_, _, _)
ForEachReverse_stop(list, k, target_uid) ==
  IF k = 0 THEN <<>>
  ELSE IF list[k].mnt_mode \notin {TRY_UMOUNT_DEFAULT, TRY_UMOUNT_DETACH} THEN <<>>
  ELSE UmountOne(list[k], target_uid) \o ForEachReverse_stop(list, k - 1, target_uid)

\* list_for_each_entry_reverse from position k down to the head
RECURSIVE ForEachReverse(_, _, _)
ForEachReverse(list, k, target_uid) ==
  IF k = 0 THEN <<>>
  ELSE UmountOne(list[k], target_uid) \o ForEachReverse(list, k - 1, target_uid)

\* susfs_try_umount: the ksu_try_umount calls in the order they are issued
susfs_try_umount(target_uid) ==
  ForEachReverse(LH_TRY_UMOUNT_PATH, Len(LH_TRY_UMOUNT_PATH), target_uid)

AddCalls ==
  { [info |-> [target_pathname |-> p, mnt_mode |-> m], copy_ok |-> c, alloc_ok |-> k] :
      p \in Paths, m \in Modes, c \in BOOLEAN, k \in BOOLEAN }

NoUCall == [op |-> "none"]

InitUmount ==
  /\ LH_TRY_UMOUNT_PATH = <<>>
  /\ reg_hist = <<>>
  /\ umount_log = <<>>
  /\ ucall = NoUCall

AddTryUmount ==
  \E a \in AddCalls :
    LET r == susfs_add_try_umount(a) IN
    /\ LH_TRY_UMOUNT_PATH' = r.list
    /\ reg_hist' = IF r.ret = 0 THEN Append(reg_hist, a.info) ELSE reg_hist
    /\ umount_log' = <<>>
    /\ ucall' = [op |-> "add", arg |-> a, before |-> LH_TRY_UMOUNT_PATH, ret |-> r.ret]
    /\ UNCHANGED <<suVars, susVars>>

TryUmount ==
  \E u \in Uids :
    /\ umount_log' = susfs_try_umount(u)
    /\ ucall' = [op |-> "replay", uid |-> u, before |-> LH_TRY_UMOUNT_PATH]
    /\ UNCHANGED <<LH_TRY_UMOUNT_PATH, reg_hist, suVars, susVars>>

NextUmount ==
  \/ AddTryUmount
  \/ TryUmount

----------------------------------------------------------------------------
(* Filesystem objects the registered pathnames can resolve to.              *)
(* What a pathname resolves to is decided at the time of each call: mounts  *)
(* and renames change it between calls.                                     *)

\* objects 1 and 2 live on a filesystem sus_path accepts, 3 on tmpfs, 4 on fuse
Objs == {1, 2, 3, 4}
FsType(obj) == IF obj = 3 THEN "tmpfs" ELSE IF obj = 4 THEN "fuse" ELSE "f2fs"
\* inode->i_ino of an object
i_ino(obj) == 100 + obj

\* outcomes of kern_path(): an error, a dentry without inode, or an object
Resolutions ==
  {[kind |-> "error", obj |-> 0, fs |-> "none"]}
  \cup {[kind |-> "negative", obj |-> 0, fs |-> "f2fs"]}
  \cup {[kind |-> "ok", obj |-> o, fs |-> FsType(o)] : o \in Objs}

----------------------------------------------------------------------------
(* Path concealment registry (susfs sus_path) *)

SusPaths == 1..NumSusPaths
\* inode numbers a caller passes as target_ino
InoHints == {i_ino(1), i_ino(2)}

\* variant: the lookup succeeds but INODE_STATE_SUS_PATH is not set
susfs_update_sus_path_inode_no_bit(res, inodes) ==
  IF res.kind = "error" THEN [ret |-> 1, inodes |-> inodes]
  ELSE IF res.fs = "tmpfs" \/ res.fs = "fuse" THEN [ret |-> 1, inodes |-> inodes]
  ELSE IF res.kind = "negative" THEN [ret |-> 1, inodes |-> inodes]
  ELSE [ret |-> 0, inodes |-> inodes]

\* variant: no filesystem is refused
susfs_update_sus_path_inode_any_fs(res, inodes) ==
  IF res.kind = "error" THEN [ret |-> 1, inodes |-> inodes]
  ELSE IF res.kind = "negative" THEN [ret |-> 1, inodes |-> inodes]
  ELSE [ret |-> 0, inodes |-> inodes \cup {res.obj}]

\* susfs_update_sus_path_inode: res is what kern_path finds for the pathname; yields
\* the result and the objects carrying INODE_STATE_SUS_PATH afterwards
susfs_update_sus_path_inode(res, inodes) ==
  IF res.kind = "error" THEN [ret |-> 1, inodes |-> inodes]
  ELSE IF res.fs = "tmpfs" \/ res.fs = "fuse" THEN [ret |-> 1, inodes |-> inodes]
  ELSE IF res.kind = "negative" THEN [ret |-> 1, inodes |-> inodes]
  ELSE [ret |-> 0, inodes |-> inodes \cup {res.obj}]

\* kern_path: the path references it hands out, one when the lookup succeeds (a
\* dentry without inode is a successful lookup too)
kern_path(res) == IF res.kind = "error" THEN 0 ELSE 1

\* susfs_update_sus_path_inode: the path_put calls on the return it takes
susfs_update_sus_path_inode_path_put(res) ==
  IF res.kind = "error" THEN 0
  ELSE IF res.fs = "tmpfs" \/ res.fs = "fuse" THEN 1
  ELSE IF res.kind = "negative" THEN 1
  ELSE 1

\* the first record in iteration order whose pathname is the given one; 0 when none
FirstWithPathname(list, pathname) ==
  IF \E i \in 1..Len(list) : list[i].target_pathname = pathname
  THEN CHOOSE i \in 1..Len(list) :
         /\ list[i].target_pathname = pathname
         /\ \A j \in 1..(i - 1) : list[j].target_pathname # pathname
  ELSE 0

\* the list without its k-th record
hash_del(list, k) == SubSeq(list, 1, k - 1) \o SubSeq(list, k + 1, Len(list))

\* variant: the new record takes the place of the bucket's first record
hash_add_over_head(list, entry) == IF list = <<>> THEN <<entry>> ELSE <<entry>> \o Tail(list)

\* hash_add: the record becomes the first of its bucket
hash_add(list, entry) == <<entry>> \o list

\* variant: the record of the same pathname is found but left linked
sus_path_scan_keep(list, info) ==
  [list |-> list, update_hlist |-> FirstWithPathname(list, info.target_pathname) # 0]

\* susfs_add_sus_path, lines 93-102: the scan that unlinks and frees the record of the
\* same pathname
sus_path_scan(list, info) ==
  LET k == FirstWithPathname(list, info.target_pathname) IN
  IF k # 0 THEN [list |-> hash_del(list, k), update_hlist |-> TRUE]
  ELSE [list |-> list, update_hlist |-> FALSE]

\* the record susfs_add_sus_path builds (lines 110-111); obj notes the object the
\* pathname resolved to when the record was made
new_sus_path_entry(info, res) ==
  [target_ino |-> info.target_ino, target_pathname |-> info.target_pathname, obj |-> res.obj]

\* variant: a registration that fails after unlinking the old record takes the
\* concealment bit off the old record's object
susfs_add_sus_path_unmark(a) ==
  LET same == [ret |-> 1, list |-> SUS_PATH_HLIST, inodes |-> sus_path_inodes]
      gone == { SUS_PATH_HLIST[i].obj : i \in { j \in 1..Len(SUS_PATH_HLIST) :
                  SUS_PATH_HLIST[j].target_pathname = a.info.target_pathname } } IN
  IF ~a.copy_ok THEN same
  ELSE LET sc == sus_path_scan(SUS_PATH_HLIST, a.info) IN
    IF ~a.alloc_ok THEN [ret |-> 1, list |-> sc.list, inodes |-> sus_path_inodes \ gone]
    ELSE LET up == susfs_update_sus_path_inode(a.res, sus_path_inodes) IN
      IF up.ret # 0 THEN [ret |-> 1, list |-> sc.list, inodes |-> sus_path_inodes \ gone]
      ELSE [ret |-> 0, list |-> hash_add(sc.list, new_sus_path_entry(a.info, a.res)),
            inodes |-> up.inodes]

\* susfs_add_sus_path run from start to end without interleaving
susfs_add_sus_path(a) ==
  LET same == [ret |-> 1, list |-> SUS_PATH_HLIST, inodes |-> sus_path_inodes] IN
  IF ~a.copy_ok THEN same
  ELSE LET sc == sus_path_scan(SUS_PATH_HLIST, a.info) IN
    IF ~a.alloc_ok THEN [ret |-> 1, list |-> sc.list, inodes |-> sus_path_inodes]
    ELSE LET up == susfs_update_sus_path_inode(a.res, sus_path_inodes) IN
      IF up.ret # 0 THEN [ret |-> 1, list |-> sc.list, inodes |-> sus_path_inodes]
      ELSE [ret |-> 0, list |-> hash_add(sc.list, new_sus_path_entry(a.info, a.res)),
            inodes |-> up.inodes]

\* susfs_sus_ino_for_filldir64
susfs_sus_ino_for_filldir64(ino) ==
  IF \E i \in 1..Len(SUS_PATH_HLIST) : SUS_PATH_HLIST[i].target_ino = ino THEN 1 ELSE 0

\* how far a call gets: the input copy fails, or kmalloc fails, or the pathname is
\* looked up with one of the outcomes of kern_path (what a call does not reach is
\* given one fixed value)
SusPathOutcomes ==
  {[copy_ok |-> FALSE, alloc_ok |-> FALSE, res |-> [kind |-> "error", obj |-> 0, fs |-> "none"]],
   [copy_ok |-> TRUE, alloc_ok |-> FALSE, res |-> [kind |-> "error", obj |-> 0, fs |-> "none"]]}
  \cup {[copy_ok |-> TRUE, alloc_ok |-> TRUE, res |-> r] : r \in Resolutions}

SusPathCalls ==
  { [info |-> [target_ino |-> n, target_pathname |-> p], copy_ok |-> o.copy_ok,
     alloc_ok |-> o.alloc_ok, res |-> o.res] :
      n \in InoHints, p \in SusPaths, o \in SusPathOutcomes }

NoPCall == [op |-> "none"]

InitPath ==
  /\ SUS_PATH_HLIST = <<>>
  /\ sus_path_inodes = {}
  /\ path_regs = {}
  /\ path_failed = FALSE
  /\ pcall = NoPCall

AddSusPath ==
  \E a \in SusPathCalls :
    LET r == susfs_add_sus_path(a) IN
    /\ SUS_PATH_HLIST' = r.list
    /\ sus_path_inodes' = r.inodes
    /\ path_regs' = IF r.ret = 0 THEN path_regs \cup {a.info.target_pathname} ELSE path_regs
    /\ path_failed' = (path_failed \/ r.ret # 0)
    /\ pcall' = [op |-> "add", arg |-> a, before |-> SUS_PATH_HLIST,
                 inodes_before |-> sus_path_inodes, ret |-> r.ret]
    /\ UNCHANGED <<suVars, umountVars, mountVars, thr, susfs_spin_lock, unameVars>>

Filldir ==
  \E o \in Objs :
    /\ pcall' = [op |-> "filldir", ino |-> i_ino(o), ret |-> susfs_sus_ino_for_filldir64(i_ino(o))]
    /\ UNCHANGED <<SUS_PATH_HLIST, sus_path_inodes, path_regs, path_failed>>
    /\ UNCHANGED <<suVars, umountVars, mountVars, thr, susfs_spin_lock, unameVars>>

NextPath ==
  \/ AddSusPath
  \/ Filldir

----------------------------------------------------------------------------
(* Mount concealment registry (susfs sus_mount) *)

\* the peer group id from which a mount counts as one of susfs's own
DEFAULT_SUS_MNT_GROUP_ID == 1000

\* mnt_group_id of the mount a pathname resolves to
GroupIds ==
  {0, 5, DEFAULT_SUS_MNT_GROUP_ID - 1, DEFAULT_SUS_MNT_GROUP_ID, DEFAULT_SUS_MNT_GROUP_ID + 1}

MntObjs == {1, 2}

\* outcomes of kern_path() for a mount pathname, with the peer group id of its mount
MountResolutions ==
  {[kind |-> "error", obj |-> 0, gid |-> 0]}
  \cup {[kind |-> "negative", obj |-> 0, gid |-> g] : g \in {0, 5}}
  \cup {[kind |-> "ok", obj |-> o, gid |-> g] : o \in MntObjs, g \in GroupIds}

\* variant: the peer group id is not looked at
susfs_update_sus_mount_inode_any_group(res, inodes) ==
  IF res.kind = "ok" THEN inodes \cup {res.obj} ELSE inodes

\* susfs_update_sus_mount_inode: the objects carrying INODE_STATE_SUS_MOUNT afterwards
susfs_update_sus_mount_inode(res, inodes) ==
  IF res.kind = "error" THEN inodes
  ELSE IF res.gid > 0 /\ res.gid < DEFAULT_SUS_MNT_GROUP_ID THEN inodes
  ELSE IF res.kind = "negative" THEN inodes
  ELSE inodes \cup {res.obj}

\* susfs_update_sus_mount_inode: the path_put calls on the return it takes
susfs_update_sus_mount_inode_path_put(res) ==
  IF res.kind = "error" THEN 0
  ELSE IF res.gid > 0 /\ res.gid < DEFAULT_SUS_MNT_GROUP_ID THEN 0
  ELSE IF res.kind = "negative" THEN 1
  ELSE 1

MKDEV(ma, mi) == ma * 1048576 + mi

\* huge_decode_dev: major from bits 8-19, minor from bits 0-7 and 20-31
huge_decode_dev(dev) ==
  MKDEV((dev \div 256) % 4096, (dev % 256) + ((dev \div 1048576) % 4096) * 256)

\* device numbers as user space encodes them: 8:1 and 259:0
UserDevs == {2049, 66304}

\* the record as susfs_add_sus_mount holds it after the device number is decoded
decoded_info(info) ==
  [target_pathname |-> info.target_pathname, target_dev |-> huge_decode_dev(info.target_dev)]

\* variant: a pathname that gets no concealment bit is refused and nothing is recorded
susfs_add_sus_mount_strict(a) ==
  LET same == [ret |-> 1, list |-> LH_SUS_MOUNT, inodes |-> sus_mount_inodes] IN
  IF ~a.copy_ok THEN same
  ELSE LET info == decoded_info(a.info)
           k == FirstWithPathname(LH_SUS_MOUNT, info.target_pathname)
           up == susfs_update_sus_mount_inode(a.res, sus_mount_inodes) IN
    IF k = 0 /\ ~a.alloc_ok THEN same
    ELSE IF a.res.obj \notin up THEN same
    ELSE [ret |-> 0, inodes |-> up,
          list |-> IF k # 0 THEN [LH_SUS_MOUNT EXCEPT ![k] = info]
                   ELSE list_add_tail(info, LH_SUS_MOUNT)]

\* susfs_add_sus_mount run from start to end without interleaving
susfs_add_sus_mount(a) ==
  IF ~a.copy_ok THEN [ret |-> 1, list |-> LH_SUS_MOUNT, inodes |-> sus_mount_inodes]
  ELSE LET info == decoded_info(a.info)
           k == FirstWithPathname(LH_SUS_MOUNT, info.target_pathname) IN
    IF k # 0
    THEN [ret |-> 0, list |-> [LH_SUS_MOUNT EXCEPT ![k] = info],
          inodes |-> susfs_update_sus_mount_inode(a.res, sus_mount_inodes)]
    ELSE IF ~a.alloc_ok THEN [ret |-> 1, list |-> LH_SUS_MOUNT, inodes |-> sus_mount_inodes]
    ELSE [ret |-> 0, list |-> list_add_tail(info, LH_SUS_MOUNT),
          inodes |-> susfs_update_sus_mount_inode(a.res, sus_mount_inodes)]

\* how far a call gets (what a call does not reach is given one fixed value)
SusMountOutcomes ==
  {[copy_ok |-> FALSE, alloc_ok |-> FALSE, res |-> [kind |-> "error", obj |-> 0, gid |-> 0]]}
  \cup {[copy_ok |-> TRUE, alloc_ok |-> k, res |-> r] : k \in BOOLEAN, r \in MountResolutions}

SusMountCalls ==
  { [info |-> [target_pathname |-> p, target_dev |-> d], copy_ok |-> o.copy_ok,
     alloc_ok |-> o.alloc_ok, res |-> o.res] :
      p \in SusPaths, d \in UserDevs, o \in SusMountOutcomes }

AddSusMount ==
  \E a \in SusMountCalls :
    LET r == susfs_add_sus_mount(a) IN
    /\ LH_SUS_MOUNT' = r.list
    /\ sus_mount_inodes' = r.inodes
    /\ mcall' = [op |-> "add", arg |-> a, before |-> LH_SUS_MOUNT,
                 inodes_before |-> sus_mount_inodes, ret |-> r.ret]
    /\ UNCHANGED <<suVars, umountVars, pathVars, thr, susfs_spin_lock, unameVars>>

NextMount == AddSusMount

----------------------------------------------------------------------------
(* Identity spoofing store (susfs spoof_uname) *)

\* length of a utsname field without its terminator
NEW_UTS_LEN == 64

\* "default"
DEFAULT == <<100, 101, 102, 97, 117, 108, 116>>
\* utsname()->release and utsname()->version of the running system: "4.9" and "#1"
SysRelease == <<52, 46, 57>>
SysVersion == <<35, 49>>

\* the string a char array holds after strncpy(dst, src, n), dst[n] being 0
strncpy(src, n) == SubSeq(src, 1, IF Len(src) < n THEN Len(src) ELSE n)

\* strcmp: 0 when the strings are equal
strcmp(a, b) == IF a = b THEN 0 ELSE 1

\* what the uname system call hands to susfs_spoof_uname: the live values
LiveUname == [release |-> SysRelease, version |-> SysVersion]

\* susfs_my_uname_init: memset 0
ZeroUname == [release |-> <<>>, version |-> <<>>]

\* strings a caller passes as release or version: empty, "default", "5x", and one that
\* fills the field
UnameValues == {<<>>, DEFAULT, <<53, 120>>, [i \in 1..NEW_UTS_LEN |-> 54]}

\* lines 303-307 and 308-312: one field of the store is written
set_field(given, live) ==
  IF strcmp(given, DEFAULT) = 0 THEN strncpy(live, NEW_UTS_LEN) ELSE strncpy(given, NEW_UTS_LEN)

\* variant: a failed input copy is not noticed and the store is written from the buffer
susfs_set_uname_unchecked(a) ==
  [ret |-> 0, uname |-> [release |-> set_field(a.info.release, SysRelease),
                         version |-> set_field(a.info.version, SysVersion)]]

\* susfs_set_uname run from start to end without interleaving
susfs_set_uname(a) ==
  IF ~a.copy_ok THEN [ret |-> 1, uname |-> my_uname]
  ELSE [ret |-> 0, uname |-> [release |-> set_field(a.info.release, SysRelease),
                              version |-> set_field(a.info.version, SysVersion)]]

\* variant: the store is copied out whatever it holds
susfs_spoof_uname_unchecked(tmp, locked) ==
  [release |-> strncpy(my_uname.release, NEW_UTS_LEN),
   version |-> strncpy(my_uname.version, NEW_UTS_LEN)]

\* susfs_spoof_uname: tmp is the caller's identity record, locked the answer of
\* spin_is_locked; yields the record afterwards
susfs_spoof_uname(tmp, locked) ==
  IF my_uname.release = <<>> \/ locked THEN tmp
  ELSE [release |-> strncpy(my_uname.release, NEW_UTS_LEN),
        version |-> strncpy(my_uname.version, NEW_UTS_LEN)]

\* calls of susfs_set_uname (a call whose input copy fails has nothing in its buffer
\* that the function looks at)
SetUnameCalls ==
  {[info |-> ZeroUname, copy_ok |-> FALSE]}
  \cup {[info |-> [release |-> r, version |-> v], copy_ok |-> TRUE] :
          r \in UnameValues, v \in UnameValues}

InitUname ==
  /\ my_uname = ZeroUname
  /\ susfs_uname_spin_lock = 0
  /\ uname_set = [op |-> "none"]
  /\ ncall = [op |-> "none"]

SetUname ==
  \E a \in SetUnameCalls :
    LET r == susfs_set_uname(a) IN
    /\ my_uname' = r.uname
    /\ uname_set' = IF r.ret = 0 THEN [op |-> "set", info |-> a.info] ELSE uname_set
    /\ ncall' = [op |-> "set", arg |-> a, before |-> my_uname, ret |-> r.ret]
    /\ UNCHANGED <<susfs_uname_spin_lock, suVars, umountVars, pathVars, mountVars, thr,
                   susfs_spin_lock>>

SpoofUname ==
  /\ ncall' = [op |-> "spoof", tmp |-> LiveUname, before |-> my_uname,
               out |-> susfs_spoof_uname(LiveUname, susfs_uname_spin_lock # 0)]
  /\ UNCHANGED <<my_uname, susfs_uname_spin_lock, uname_set>>
  /\ UNCHANGED <<suVars, umountVars, pathVars, mountVars, thr, susfs_spin_lock>>

NextUname ==
  \/ SetUname
  \/ SpoofUname

----------------------------------------------------------------------------
(* Control-channel threads *)

NumThreads == 2
Threads == 1..NumThreads

Idle == [pc |-> "idle"]

InitMount ==
  /\ LH_SUS_MOUNT = <<>>
  /\ sus_mount_inodes = {}
  /\ mcall = [op |-> "none"]

InitThreads ==
  /\ thr = [t \in Threads |-> Idle]
  /\ susfs_spin_lock = 0

\* a thread's call has returned
Done(t) == thr[t].pc = "done"

(* susfs_add_try_umount called from several threads: the scan runs without the   *)
(* lock, the allocation follows, and only list_add_tail runs under the spin lock *)

\* lines 242-245: the caller's record is copied in
UmCopy(t) ==
  /\ thr[t].pc = "idle"
  /\ \E a \in AddCalls :
       thr' = [thr EXCEPT ![t] =
                 IF a.copy_ok THEN [pc |-> "um_scan", op |-> "try_umount", arg |-> a]
                 ELSE [pc |-> "done", op |-> "try_umount", arg |-> a, ret |-> 1]]
  /\ UNCHANGED <<suVars, umountVars, pathVars, mountVars, susfs_spin_lock, unameVars>>

\* lines 247-252: the scan for a record of the same pathname
UmScan(t) ==
  /\ thr[t].pc = "um_scan"
  /\ thr' = [thr EXCEPT ![t] =
       IF \E i \in 1..Len(LH_TRY_UMOUNT_PATH) :
            LH_TRY_UMOUNT_PATH[i].target_pathname = thr[t].arg.info.target_pathname
       THEN [pc |-> "done", op |-> "try_umount", arg |-> thr[t].arg, ret |-> 1]
       ELSE [thr[t] EXCEPT !.pc = "um_alloc"]]
  /\ UNCHANGED <<suVars, umountVars, pathVars, mountVars, susfs_spin_lock, unameVars>>

\* lines 254-260: kmalloc and memcpy
UmAlloc(t) ==
  /\ thr[t].pc = "um_alloc"
  /\ thr' = [thr EXCEPT ![t] =
       IF thr[t].arg.alloc_ok THEN [thr[t] EXCEPT !.pc = "um_add"]
       ELSE [pc |-> "done", op |-> "try_umount", arg |-> thr[t].arg, ret |-> 1]]
  /\ UNCHANGED <<suVars, umountVars, pathVars, mountVars, susfs_spin_lock, unameVars>>

\* lines 262-267: list_add_tail under susfs_spin_lock, return 0
UmAdd(t) ==
  /\ thr[t].pc = "um_add"
  /\ susfs_spin_lock = 0
  /\ LH_TRY_UMOUNT_PATH' = list_add_tail(thr[t].arg.info, LH_TRY_UMOUNT_PATH)
  /\ reg_hist' = Append(reg_hist, thr[t].arg.info)
  /\ thr' = [thr EXCEPT ![t] = [pc |-> "done", op |-> "try_umount", arg |-> thr[t].arg, ret |-> 0]]
  /\ UNCHANGED <<umount_log, ucall, suVars, pathVars, mountVars, susfs_spin_lock, unameVars>>

NextUmountConc ==
  \E t \in Threads :
    \/ UmCopy(t)
    \/ UmScan(t)
    \/ UmAlloc(t)
    \/ UmAdd(t)

(* susfs_add_sus_path called from several threads: the scan and hash_add each run *)
(* under susfs_spin_lock, the allocation and the inode update between them do not *)

PathThread(pc, info) == [pc |-> pc, op |-> "sus_path", info |-> info]
PathFailed(t) == [pc |-> "done", op |-> "sus_path", info |-> thr[t].info, ret |-> 1]

\* lines 88-91: the caller's record is copied in
SpCopy(t) ==
  /\ thr[t].pc = "idle"
  /\ \E n \in InoHints, p \in SusPaths, copy_ok \in BOOLEAN :
       LET info == [target_ino |-> n, target_pathname |-> p] IN
       /\ thr' = [thr EXCEPT ![t] =
                    IF copy_ok THEN PathThread("sp_scan", info)
                    ELSE [pc |-> "done", op |-> "sus_path", info |-> info, ret |-> 1]]
       /\ path_failed' = (path_failed \/ ~copy_ok)
  /\ UNCHANGED <<SUS_PATH_HLIST, sus_path_inodes, path_regs, pcall>>
  /\ UNCHANGED <<suVars, umountVars, mountVars, susfs_spin_lock, unameVars>>

\* lines 93-102: under the lock, the record of the same pathname is unlinked
SpScan(t) ==
  /\ thr[t].pc = "sp_scan"
  /\ susfs_spin_lock = 0
  /\ SUS_PATH_HLIST' = sus_path_scan(SUS_PATH_HLIST, thr[t].info).list
  /\ thr' = [thr EXCEPT ![t] = PathThread("sp_alloc", thr[t].info)]
  /\ UNCHANGED <<sus_path_inodes, path_regs, path_failed, pcall>>
  /\ UNCHANGED <<suVars, umountVars, mountVars, susfs_spin_lock, unameVars>>

\* lines 104-108: kmalloc
SpAlloc(t) ==
  /\ thr[t].pc = "sp_alloc"
  /\ \E alloc_ok \in BOOLEAN :
       /\ thr' = [thr EXCEPT ![t] =
                    IF alloc_ok THEN PathThread("sp_update", thr[t].info) ELSE PathFailed(t)]
       /\ path_failed' = (path_failed \/ ~alloc_ok)
  /\ UNCHANGED <<SUS_PATH_HLIST, sus_path_inodes, path_regs, pcall>>
  /\ UNCHANGED <<suVars, umountVars, mountVars, susfs_spin_lock, unameVars>>

\* lines 110-115: the record is filled and susfs_update_sus_path_inode marks the object
SpUpdate(t) ==
  /\ thr[t].pc = "sp_update"
  /\ \E res \in Resolutions :
       LET up == susfs_update_sus_path_inode(res, sus_path_inodes) IN
       /\ sus_path_inodes' = up.inodes
       /\ thr' = [thr EXCEPT ![t] =
                    IF up.ret = 0
                    THEN [pc |-> "sp_add", op |-> "sus_path", info |-> thr[t].info,
                          entry |-> new_sus_path_entry(thr[t].info, res)]
                    ELSE PathFailed(t)]
       /\ path_failed' = (path_failed \/ up.ret # 0)
  /\ UNCHANGED <<SUS_PATH_HLIST, path_regs, pcall>>
  /\ UNCHANGED <<suVars, umountVars, mountVars, susfs_spin_lock, unameVars>>

\* lines 116-126: hash_add under the lock, return 0
SpAdd(t) ==
  /\ thr[t].pc = "sp_add"
  /\ susfs_spin_lock = 0
  /\ SUS_PATH_HLIST' = hash_add(SUS_PATH_HLIST, thr[t].entry)
  /\ path_regs' = path_regs \cup {thr[t].info.target_pathname}
  /\ thr' = [thr EXCEPT ![t] = [pc |-> "done", op |-> "sus_path", info |-> thr[t].info,
                                entry |-> thr[t].entry, ret |-> 0]]
  /\ UNCHANGED <<sus_path_inodes, path_failed, pcall>>
  /\ UNCHANGED <<suVars, umountVars, mountVars, susfs_spin_lock, unameVars>>

NextPathConc ==
  \E t \in Threads :
    \/ SpCopy(t)
    \/ SpScan(t)
    \/ SpAlloc(t)
    \/ SpUpdate(t)
    \/ SpAdd(t)

(* susfs_add_sus_mount called from several threads: the scan runs without the lock; *)
(* a match is overwritten under the lock, a new record is allocated and marked      *)
(* without it and linked under it                                                   *)

MountThread(pc, info) == [pc |-> pc, op |-> "sus_mount", info |-> info]
MountDone(t, ret) == [pc |-> "done", op |-> "sus_mount", info |-> thr[t].info, ret |-> ret]

\* lines 187-200: the caller's record is copied in and its device number decoded
SmCopy(t) ==
  /\ thr[t].pc = "idle"
  /\ \E p \in SusPaths, d \in UserDevs, copy_ok \in BOOLEAN :
       LET info == decoded_info([target_pathname |-> p, target_dev |-> d]) IN
       thr' = [thr EXCEPT ![t] =
                 IF copy_ok THEN MountThread("sm_scan", info)
                 ELSE [pc |-> "done", op |-> "sus_mount", info |-> info, ret |-> 1]]
  /\ UNCHANGED <<suVars, umountVars, pathVars, mountVars, susfs_spin_lock, unameVars>>

\* lines 202-203: the scan for a record of the same pathname
SmScan(t) ==
  /\ thr[t].pc = "sm_scan"
  /\ LET k == FirstWithPathname(LH_SUS_MOUNT, thr[t].info.target_pathname) IN
     thr' = [thr EXCEPT ![t] =
               IF k # 0
               THEN [pc |-> "sm_update", op |-> "sus_mount", info |-> thr[t].info, cursor |-> k]
               ELSE MountThread("sm_alloc", thr[t].info)]
  /\ UNCHANGED <<suVars, umountVars, pathVars, mountVars, susfs_spin_lock, unameVars>>

\* line 204: spin_lock for the record the scan found
SmLock(t) ==
  /\ thr[t].pc = "sm_update"
  /\ susfs_spin_lock = 0
  /\ susfs_spin_lock' = t
  /\ thr' = [thr EXCEPT ![t] = [thr[t] EXCEPT !.pc = "sm_locked"]]
  /\ UNCHANGED <<suVars, umountVars, pathVars, mountVars, unameVars>>

\* lines 205-210: the record is overwritten, susfs_update_sus_mount_inode looks the
\* pathname up and marks the object, then spin_unlock and return 0
SmUpdate(t) ==
  /\ thr[t].pc = "sm_locked"
  /\ \E res \in MountResolutions :
       /\ LH_SUS_MOUNT' = [LH_SUS_MOUNT EXCEPT ![thr[t].cursor] = thr[t].info]
       /\ sus_mount_inodes' = susfs_update_sus_mount_inode(res, sus_mount_inodes)
  /\ susfs_spin_lock' = 0
  /\ thr' = [thr EXCEPT ![t] = MountDone(t, 0)]
  /\ UNCHANGED <<mcall, suVars, umountVars, pathVars, unameVars>>

\* lines 214-218: kmalloc
SmAlloc(t) ==
  /\ thr[t].pc = "sm_alloc"
  /\ \E alloc_ok \in BOOLEAN :
       thr' = [thr EXCEPT ![t] =
                 IF alloc_ok THEN MountThread("sm_inode", thr[t].info) ELSE MountDone(t, 1)]
  /\ UNCHANGED <<suVars, umountVars, pathVars, mountVars, susfs_spin_lock, unameVars>>

\* lines 220-221: the record is filled and susfs_update_sus_mount_inode marks the object
SmInode(t) ==
  /\ thr[t].pc = "sm_inode"
  /\ \E res \in MountResolutions :
       sus_mount_inodes' = susfs_update_sus_mount_inode(res, sus_mount_inodes)
  /\ thr' = [thr EXCEPT ![t] = MountThread("sm_add", thr[t].info)]
  /\ UNCHANGED <<LH_SUS_MOUNT, mcall, suVars, umountVars, pathVars, susfs_spin_lock, unameVars>>

\* lines 223-229: list_add_tail under the lock, return 0
SmAdd(t) ==
  /\ thr[t].pc = "sm_add"
  /\ susfs_spin_lock = 0
  /\ LH_SUS_MOUNT' = list_add_tail(thr[t].info, LH_SUS_MOUNT)
  /\ thr' = [thr EXCEPT ![t] = MountDone(t, 0)]
  /\ UNCHANGED <<sus_mount_inodes, mcall, suVars, umountVars, pathVars, susfs_spin_lock, unameVars>>

(* susfs_sus_ino_for_filldir64 called while records are registered: the bucket is *)
(* walked without any lock. The inode numbers of the model fall into different   *)
(* buckets, so a bucket holds the records of one inode number.                   *)

\* line 132: the head of the bucket is read
FdStart(t) ==
  /\ thr[t].pc = "idle"
  /\ \E o \in Objs :
       LET bucket == SelectSeq(SUS_PATH_HLIST, LAMBDA e : e.target_ino = i_ino(o)) IN
       thr' = [thr EXCEPT ![t] =
                 IF bucket = <<>>
                 THEN [pc |-> "done", op |-> "filldir", ino |-> i_ino(o), ret |-> 0]
                 ELSE [pc |-> "fd_visit", op |-> "filldir", ino |-> i_ino(o),
                       entry |-> Head(bucket)]]
  /\ UNCHANGED <<suVars, umountVars, pathVars, mountVars, susfs_spin_lock, unameVars>>

\* the record is among the live records of the registry
Live(entry) == \E i \in 1..Len(SUS_PATH_HLIST) : SUS_PATH_HLIST[i] = entry

\* line 133: entry->target_ino is read and compared; a record that was unlinked and
\* freed in the meantime may hold anything
FdVisit(t) ==
  /\ thr[t].pc = "fd_visit"
  /\ \E r \in {0, 1} :
       /\ Live(thr[t].entry) => r = 1
       /\ thr' = [thr EXCEPT ![t] = [pc |-> "done", op |-> "filldir", ino |-> thr[t].ino,
                                     ret |-> r]]
  /\ UNCHANGED <<suVars, umountVars, pathVars, mountVars, susfs_spin_lock, unameVars>>

\* the thread's call has returned and the thread is free to make another
Return(t) ==
  /\ thr[t].pc = "done"
  /\ thr' = [thr EXCEPT ![t] = Idle]
  /\ UNCHANGED <<suVars, umountVars, pathVars, mountVars, susfs_spin_lock, unameVars>>

NextPathReadConc ==
  \/ NextPathConc
  \/ \E t \in Threads : FdStart(t) \/ FdVisit(t) \/ Return(t)

NextMountConc ==
  \E t \in Threads :
    \/ SmCopy(t)
    \/ SmScan(t)
    \/ SmLock(t)
    \/ SmUpdate(t)
    \/ SmAlloc(t)
    \/ SmInode(t)
    \/ SmAdd(t)

(* susfs_set_uname and susfs_spoof_uname called from several threads: the writer  *)
(* holds susfs_uname_spin_lock over its two writes; the reader tests the lock and *)
(* the first byte of the store, then copies the two fields without the lock       *)

UnameThread(pc, info) == [pc |-> pc, op |-> "set_uname", info |-> info]

\* the pair a set call with this record stores
StoredBy(info) ==
  [release |-> set_field(info.release, SysRelease),
   version |-> set_field(info.version, SysVersion)]

\* the pairs of the set calls that hold the lock
BeingStored ==
  { StoredBy(thr[u].info) :
      u \in { v \in Threads : thr[v].pc \in {"un_release", "un_version", "un_unlock"} } }

\* lines 299-302: the caller's record is copied in
UnCopy(t) ==
  /\ thr[t].pc = "idle"
  /\ \E a \in SetUnameCalls :
       thr' = [thr EXCEPT ![t] =
                 IF a.copy_ok THEN UnameThread("un_lock", a.info)
                 ELSE [pc |-> "done", op |-> "set_uname", info |-> a.info, ret |-> 1]]
  /\ UNCHANGED <<suVars, umountVars, pathVars, mountVars, susfs_spin_lock, unameVars>>

\* line 304: spin_lock
UnLock(t) ==
  /\ thr[t].pc = "un_lock"
  /\ susfs_uname_spin_lock = 0
  /\ susfs_uname_spin_lock' = t
  /\ thr' = [thr EXCEPT ![t] = UnameThread("un_release", thr[t].info)]
  /\ UNCHANGED <<my_uname, uname_set, ncall>>
  /\ UNCHANGED <<suVars, umountVars, pathVars, mountVars, susfs_spin_lock>>

\* lines 305-309: the release field is written
UnRelease(t) ==
  /\ thr[t].pc = "un_release"
  /\ my_uname' = [my_uname EXCEPT !.release = set_field(thr[t].info.release, SysRelease)]
  /\ thr' = [thr EXCEPT ![t] = UnameThread("un_version", thr[t].info)]
  /\ UNCHANGED <<susfs_uname_spin_lock, uname_set, ncall>>
  /\ UNCHANGED <<suVars, umountVars, pathVars, mountVars, susfs_spin_lock>>

\* lines 310-314: the version field is written
UnVersion(t) ==
  /\ thr[t].pc = "un_version"
  /\ my_uname' = [my_uname EXCEPT !.version = set_field(thr[t].info.version, SysVersion)]
  /\ thr' = [thr EXCEPT ![t] = UnameThread("un_unlock", thr[t].info)]
  /\ UNCHANGED <<susfs_uname_spin_lock, uname_set, ncall>>
  /\ UNCHANGED <<suVars, umountVars, pathVars, mountVars, susfs_spin_lock>>

\* lines 315-318: spin_unlock, return 0; every reader that is copying notes the pair
\* the store now holds as the pair of a completed call
UnUnlock(t) ==
  /\ thr[t].pc = "un_unlock"
  /\ susfs_uname_spin_lock' = 0
  /\ uname_set' = [op |-> "set", info |-> thr[t].info]
  /\ thr' = [u \in Threads |->
               IF u = t
               THEN [pc |-> "done", op |-> "set_uname", info |-> thr[t].info, ret |-> 0]
               ELSE IF thr[u].pc \in {"us_release", "us_version"}
               THEN [thr[u] EXCEPT !.whole = @ \cup {my_uname}]
               ELSE thr[u]]
  /\ UNCHANGED <<my_uname, ncall>>
  /\ UNCHANGED <<suVars, umountVars, pathVars, mountVars, susfs_spin_lock>>

\* line 322: the reader tests the first byte of the store and spin_is_locked; at records
\* what stood at that moment, whole the pairs that single set calls store: the pair
\* in the store at the test (the lock is free, so it is the pair of the last completed
\* call), the pairs of the calls that complete during the copy, and the pairs of the
\* calls that hold the lock when the copy ends
UsCheck(t) ==
  /\ thr[t].pc = "idle"
  /\ LET at == [uname |-> my_uname, set |-> uname_set.op = "set",
                locked |-> susfs_uname_spin_lock # 0] IN
     thr' = [thr EXCEPT ![t] =
               IF my_uname.release = <<>> \/ susfs_uname_spin_lock # 0
               THEN [pc |-> "done", op |-> "spoof_uname", at |-> at, tmp |-> LiveUname,
                     copied |-> FALSE, whole |-> {}]
               ELSE [pc |-> "us_release", op |-> "spoof_uname", at |-> at, tmp |-> LiveUname,
                     whole |-> {my_uname}]]
  /\ UNCHANGED <<suVars, umountVars, pathVars, mountVars, susfs_spin_lock, unameVars>>

\* line 324: the release field is copied out
UsRelease(t) ==
  /\ thr[t].pc = "us_release"
  /\ thr' = [thr EXCEPT ![t] =
               [pc |-> "us_version", op |-> "spoof_uname", at |-> thr[t].at,
                whole |-> thr[t].whole,
                tmp |-> [thr[t].tmp EXCEPT !.release = strncpy(my_uname.release, NEW_UTS_LEN)]]]
  /\ UNCHANGED <<suVars, umountVars, pathVars, mountVars, susfs_spin_lock, unameVars>>

\* line 325: the version field is copied out
UsVersion(t) ==
  /\ thr[t].pc = "us_version"
  /\ thr' = [thr EXCEPT ![t] =
               [pc |-> "done", op |-> "spoof_uname", at |-> thr[t].at, copied |-> TRUE,
                whole |-> thr[t].whole \cup BeingStored,
                tmp |-> [thr[t].tmp EXCEPT !.version = strncpy(my_uname.version, NEW_UTS_LEN)]]]
  /\ UNCHANGED <<suVars, umountVars, pathVars, mountVars, susfs_spin_lock, unameVars>>

NextUnameConc ==
  \E t \in Threads :
    \/ UnCopy(t)
    \/ UnLock(t)
    \/ UnRelease(t)
    \/ UnVersion(t)
    \/ UnUnlock(t)
    \/ UsCheck(t)
    \/ UsRelease(t)
    \/ UsVersion(t)

\* set calls are made one at a time while no thread has started; then each thread
\* makes one call
NextUnameCallsConc ==
  \/ (\A t \in Threads : thr[t].pc = "idle") /\ SetUname
  \/ NextUnameConc

(* All susfs operations together: each thread makes one call, of any operation,  *)
(* and the calls run to completion one after another. A thread keeps the          *)
(* arguments of its call, the registries as they stood before and after it, and   *)
(* the result. The call records and histories of the one-subsystem specifications *)
(* are not kept here.                                                             *)

\* the registries, the concealment bits and the spoofing store
Snapshot ==
  [sus_path |-> SUS_PATH_HLIST, sus_path_inodes |-> sus_path_inodes,
   sus_mount |-> LH_SUS_MOUNT, sus_mount_inodes |-> sus_mount_inodes,
   try_umount |-> LH_TRY_UMOUNT_PATH, uname |-> my_uname]

\* the calls offered per operation: for each pathname a call whose input copy fails
\* and a call that goes through; a path registration may also fail at kmalloc or at
\* the lookup
PathCallsOffered ==
  { a \in SusPathCalls :
      /\ a.info.target_ino = i_ino(1)
      /\ ~a.copy_ok \/ ~a.alloc_ok \/ a.res.kind = "error" \/ (a.res.kind = "ok" /\ a.res.obj = 1) }
MountCallsOffered ==
  { a \in SusMountCalls :
      /\ a.info.target_dev = 2049
      /\ ~a.copy_ok \/ (a.alloc_ok /\ a.res.kind = "ok" /\ a.res.obj = 1 /\ a.res.gid = 0) }
UmountCallsOffered ==
  { a \in AddCalls : a.info.mnt_mode = TRY_UMOUNT_DEFAULT /\ a.alloc_ok = a.copy_ok }
UnameCallsOffered ==
  { a \in SetUnameCalls : ~a.copy_ok \/ (a.info.release = <<53, 120>> /\ a.info.version = DEFAULT) }

Returned(op, arg, pre, post, ret) ==
  [pc |-> "done", op |-> op, arg |-> arg, pre |-> pre, post |-> post, ret |-> ret]

CallAddSusPath(t) ==
  /\ thr[t].pc = "idle"
  /\ \E a \in PathCallsOffered :
       LET r == susfs_add_sus_path(a) IN
       /\ SUS_PATH_HLIST' = r.list
       /\ sus_path_inodes' = r.inodes
       /\ UNCHANGED <<LH_SUS_MOUNT, sus_mount_inodes, LH_TRY_UMOUNT_PATH, my_uname>>
       /\ thr' = [thr EXCEPT ![t] = Returned("susfs_add_sus_path", a, Snapshot, Snapshot', r.ret)]
  /\ UNCHANGED <<path_regs, path_failed, pcall, mcall, reg_hist, umount_log, ucall>>
  /\ UNCHANGED <<susfs_uname_spin_lock, uname_set, ncall, susfs_spin_lock, suVars>>

CallAddSusMount(t) ==
  /\ thr[t].pc = "idle"
  /\ \E a \in MountCallsOffered :
       LET r == susfs_add_sus_mount(a) IN
       /\ LH_SUS_MOUNT' = r.list
       /\ sus_mount_inodes' = r.inodes
       /\ UNCHANGED <<SUS_PATH_HLIST, sus_path_inodes, LH_TRY_UMOUNT_PATH, my_uname>>
       /\ thr' = [thr EXCEPT ![t] = Returned("susfs_add_sus_mount", a, Snapshot, Snapshot', r.ret)]
  /\ UNCHANGED <<path_regs, path_failed, pcall, mcall, reg_hist, umount_log, ucall>>
  /\ UNCHANGED <<susfs_uname_spin_lock, uname_set, ncall, susfs_spin_lock, suVars>>

CallAddTryUmount(t) ==
  /\ thr[t].pc = "idle"
  /\ \E a \in UmountCallsOffered :
       LET r == susfs_add_try_umount(a) IN
       /\ LH_TRY_UMOUNT_PATH' = r.list
       /\ UNCHANGED <<SUS_PATH_HLIST, sus_path_inodes, LH_SUS_MOUNT, sus_mount_inodes, my_uname>>
       /\ thr' = [thr EXCEPT ![t] = Returned("susfs_add_try_umount", a, Snapshot, Snapshot', r.ret)]
  /\ UNCHANGED <<path_regs, path_failed, pcall, mcall, reg_hist, umount_log, ucall>>
  /\ UNCHANGED <<susfs_uname_spin_lock, uname_set, ncall, susfs_spin_lock, suVars>>

CallSetUname(t) ==
  /\ thr[t].pc = "idle"
  /\ \E a \in UnameCallsOffered :
       LET r == susfs_set_uname(a) IN
       /\ my_uname' = r.uname
       /\ UNCHANGED <<SUS_PATH_HLIST, sus_path_inodes, LH_SUS_MOUNT, sus_mount_inodes,
                      LH_TRY_UMOUNT_PATH>>
       /\ thr' = [thr EXCEPT ![t] = Returned("susfs_set_uname", a, Snapshot, Snapshot', r.ret)]
  /\ UNCHANGED <<path_regs, path_failed, pcall, mcall, reg_hist, umount_log, ucall>>
  /\ UNCHANGED <<susfs_uname_spin_lock, uname_set, ncall, susfs_spin_lock, suVars>>

\* the three operations that read: the lookup, the replay and apply
CallRead(t) ==
  /\ thr[t].pc = "idle"
  /\ \/ \E o \in Objs :
          thr' = [thr EXCEPT ![t] =
            Returned("susfs_sus_ino_for_filldir64", i_ino(o), Snapshot, Snapshot,
                     susfs_sus_ino_for_filldir64(i_ino(o)))]
     \/ \E u \in Uids :
          thr' = [thr EXCEPT ![t] =
            Returned("susfs_try_umount", u, Snapshot, Snapshot, susfs_try_umount(u))]
     \/ thr' = [thr EXCEPT ![t] =
            Returned("susfs_spoof_uname", LiveUname, Snapshot, Snapshot,
                     susfs_spoof_uname(LiveUname, susfs_uname_spin_lock # 0))]
  /\ UNCHANGED <<suVars, umountVars, pathVars, mountVars, susfs_spin_lock, unameVars>>

NextSusfs ==
  \E t \in Threads :
    \/ CallAddSusPath(t)
    \/ CallAddSusMount(t)
    \/ CallAddTryUmount(t)
    \/ CallSetUname(t)
    \/ CallRead(t)

----------------------------------------------------------------------------
(* Specifications *)

Init == InitSu /\ InitUmount /\ InitPath /\ InitMount /\ InitUname /\ InitThreads

\* the interception handlers
Spec == Init /\ [][NextSu]_vars

\* the deferred-unmount ledger, its operations called one at a time
SpecUmount == Init /\ [][NextUmount]_vars

\* the deferred-unmount ledger, each thread making one register call
SpecUmountConc == Init /\ [][NextUmountConc]_vars

\* the path registry, its operations called one at a time
SpecPath == Init /\ [][NextPath]_vars

\* the path registry, each thread making one register call
SpecPathConc == Init /\ [][NextPathConc]_vars

\* the path registry, each thread making register calls and lookups one after another
SpecPathReadConc == Init /\ [][NextPathReadConc]_vars

\* the mount registry, register calls made one at a time
SpecMount == Init /\ [][NextMount]_vars

\* the mount registry, each thread making one register call
SpecMountConc == Init /\ [][NextMountConc]_vars

\* the spoofing store, its operations called one at a time
SpecUname == Init /\ [][NextUname]_vars

\* the spoofing store, each thread making one call
SpecUnameConc == Init /\ [][NextUnameConc]_vars

\* the spoofing store, set calls made one at a time and then each thread making one
\* call
SpecUnameCallsConc == Init /\ [][NextUnameCallsConc]_vars

\* all susfs operations, each thread making one call, the calls one after another
SpecSusfs == Init /\ [][NextSusfs]_vars

----------------------------------------------------------------------------
(* Properties of the interception handlers *)

PathOps == {"faccessat", "stat", "execve"}

\* the handler left the caller's pointer as it was and wrote nothing for the caller
Untouched == call.out.filename = call.req.ptr /\ call.out.ustack = <<>>

\* the pointer the handler left refers to the string s
PointsTo(s) == call.out.filename = "ustack" /\ CStr(call.out.ustack) = s

\* the request's pointer refers to a readable, terminated string
ValidString(req) == ~req.fu_null /\ req.ptr = "uaddr" /\ req.mem.mapped >= Len(req.mem.str) + 1

\* neither the fast read nor the fallback copy of the handler's buffer succeeds
BothReadsFault(req) ==
  /\ ksu_copy_from_user_nofault(req.mem, sizeof_path).ret # 0
  /\ copy_from_user(req.mem, sizeof_path).ret # 0

\* the handler read the caller's path and it is the trigger path
ReadTrigger(req) ==
  /\ ~req.fu_null
  /\ ~BothReadsFault(req)
  /\ req.mem.str = SU_PATH

\* C1: a caller that is not in the allow-list gets pass-through from faccessat, stat
\* and execve: the target pointer is unchanged and no escalation happens, whatever the
\* path and the enabled flag.
C1_NotAllowedPassThrough ==
  (call.op \in PathOps /\ ~call.allowed) => (Untouched /\ ~call.out.escalated)

\* a caller outside the allow-list executed the readable trigger path with hooks enabled
C1_Witness ==
  /\ call.op = "execve" /\ ~call.allowed /\ call.enabled
  /\ ReadTrigger(call.req) /\ call.req.stack_ok
  /\ Untouched

\* C2: escalation happens only when the flag is enabled, the caller is allow-listed, the
\* operation is execute and the target equals the trigger path; and when it happens
\* the target has been rewritten to the helper's path.
C2_EscalationOnlyOnTrigger ==
  /\ (call.op \in PathOps /\ call.out.escalated) =>
        /\ call.enabled /\ call.allowed /\ call.op = "execve"
        /\ ValidString(call.req) /\ call.req.mem.str = SU_PATH
        /\ PointsTo(KSUD_PATH)
  /\ (call.op = "execveat" /\ call.out.escalated) =>
        /\ call.enabled /\ call.allowed
        /\ ~call.req.fp_null /\ ~call.req.is_err /\ call.req.name = SU_PATH
        /\ call.out.name = KSUD_PATH

\* C3: with hooks enabled and an allow-listed caller, a target string equal to the
\* trigger path is rewritten and any other target string is left untouched.
C3_ExactMatchRewritten ==
  (call.op \in PathOps /\ call.enabled /\ call.allowed /\ ValidString(call.req)) =>
    IF call.req.mem.str = SU_PATH
    THEN call.out.filename # call.req.ptr
    ELSE Untouched /\ ~call.out.escalated

\* C4: for faccessat and stat a trigger-path match by an allow-listed caller rewrites
\* the target to the shell path, and these operations never escalate.
C4_CheckStatToShell ==
  (call.op \in {"faccessat", "stat"}) =>
    /\ ~call.out.escalated
    /\ (call.enabled /\ call.allowed /\ ReadTrigger(call.req)) => PointsTo(SH_PATH)

\* the handler of the call that starts in this step passes the operation through
PassedThrough(c) ==
  /\ c.op \in PathOps => (c.out.filename = c.req.ptr /\ c.out.ustack = <<>> /\ ~c.out.escalated)
  /\ c.op = "execveat" => (c.out.name = c.req.name /\ ~c.out.escalated)
  /\ c.op \in {"devpts", "__devpts"} => c.out.sid = c.req.sid

\* C5: while the enabled flag is false (after ksu_sucompat_exit, until the next
\* ksu_sucompat_init) every handler call passes the operation through: nothing is
\* rewritten and nobody is escalated.
C5_DisabledPassThrough ==
  [][(~ksu_sucompat_non_kp /\ call' # call /\ call' # NoCall) => PassedThrough(call')]_vars

\* an allow-listed caller executed the readable trigger path while the flag was false
C5_Witness ==
  /\ ~ksu_sucompat_non_kp
  /\ call.op = "execve" /\ ~call.enabled /\ call.allowed
  /\ ReadTrigger(call.req) /\ call.req.stack_ok
  /\ Untouched

\* C6: the pointer a handler leaves in the request is the original pointer or a
\* pointer to the shell path or the helper path, never anything else.
C6_PointerOriginalOrFixed ==
  (call.op \in PathOps) =>
    \/ call.out.filename = call.req.ptr
    \/ PointsTo(SH_PATH)
    \/ PointsTo(KSUD_PATH)

\* C7: when the caller's path cannot be read (filename_user is NULL, the pointer is
\* NULL, or both the fast read and the fallback copy fault) the target pointer is left
\* as it was and no escalation happens.
C7_ReadFailurePassThrough ==
  (call.op \in PathOps /\ (call.req.fu_null \/ call.req.ptr = "NULL" \/ BothReadsFault(call.req)))
    => (Untouched /\ ~call.out.escalated)

\* an allow-listed caller, hooks enabled, executed the trigger path at a pointer whose
\* 16 bytes cannot all be read
C7_Witness ==
  /\ call.op = "execve" /\ call.enabled /\ call.allowed
  /\ ~call.req.fu_null /\ call.req.ptr = "uaddr" /\ call.req.mem.str = SU_PATH
  /\ BothReadsFault(call.req)
  /\ Untouched

\* C8: every handler (faccessat, stat, execve, execveat, devpts) returns 0 for every
\* request and every state.
C8_AlwaysReturnsZero ==
  (call # NoCall) => call.out.ret = 0

\* an enabled handler called by an allow-listed caller could not read the path and
\* returned
C8_Witness ==
  /\ call.op \in PathOps /\ call.enabled /\ call.allowed
  /\ ~call.req.fu_null /\ call.req.ptr = "uaddr" /\ BothReadsFault(call.req)
  /\ call.out.ret = 0

----------------------------------------------------------------------------
(* Properties of the deferred-unmount ledger *)

\* the registered records whose mode the replay supports, in registration order
Supported == SelectSeq(reg_hist, LAMBDA r : r.mnt_mode \in {TRY_UMOUNT_DEFAULT, TRY_UMOUNT_DETACH})

\* C9: a replay issues one unmount per registered record of a supported mode, in the
\* reverse of registration order, with flags 0 for the default mode and MNT_DETACH for
\* the detach mode, for the target identity given.
C9_ReplayReverseOrder ==
  (ucall.op = "replay") =>
    /\ Len(umount_log) = Len(Supported)
    /\ \A i \in 1..Len(umount_log) :
         LET r == Supported[Len(Supported) + 1 - i] IN
         /\ umount_log[i].mnt = r.target_pathname
         /\ umount_log[i].flags = (IF r.mnt_mode = TRY_UMOUNT_DEFAULT THEN 0 ELSE MNT_DETACH)
         /\ umount_log[i].uid = ucall.uid

\* three records registered, with both supported modes and an unsupported one, replayed
C9_Witness ==
  /\ ucall.op = "replay"
  /\ Len(reg_hist) = 3
  /\ Len(umount_log) = 2
  /\ umount_log[1].flags # umount_log[2].flags

\* the successful registrations that precede the last register call
PriorHist == IF ucall.ret = 0 THEN SubSeq(reg_hist, 1, Len(reg_hist) - 1) ELSE reg_hist

\* C10: registering a pathname twice, the first call succeeds and the second fails and
\* leaves the ledger (length, order, modes) as it was.
C10_SecondRegistrationRejected ==
  (ucall.op = "add" /\ ucall.arg.copy_ok /\ ucall.arg.alloc_ok) =>
    LET registered == \E i \in 1..Len(PriorHist) :
                        PriorHist[i].target_pathname = ucall.arg.info.target_pathname
    IN IF registered
       THEN ucall.ret # 0 /\ LH_TRY_UMOUNT_PATH = ucall.before
       ELSE ucall.ret = 0 /\ LH_TRY_UMOUNT_PATH = Append(ucall.before, ucall.arg.info)

\* a pathname registered with one mode is offered again with another and refused
C10_Witness ==
  /\ ucall.op = "add" /\ ucall.arg.copy_ok /\ ucall.arg.alloc_ok /\ ucall.ret # 0
  /\ Len(LH_TRY_UMOUNT_PATH) >= 2
  /\ \E i \in 1..Len(LH_TRY_UMOUNT_PATH) :
       /\ LH_TRY_UMOUNT_PATH[i].target_pathname = ucall.arg.info.target_pathname
       /\ LH_TRY_UMOUNT_PATH[i].mnt_mode # ucall.arg.info.mnt_mode

\* the ledger holds no two records of the same pathname
NoDuplicatePathnames(list) ==
  \A i, j \in 1..Len(list) : (i # j) => list[i].target_pathname # list[j].target_pathname

\* C11: in every reachable state, register calls of different threads interleaving
\* included, the ledger holds no two records of one pathname, and the record kept for a
\* pathname is the one of its first registration.
C11_LedgerNoDuplicates ==
  /\ NoDuplicatePathnames(LH_TRY_UMOUNT_PATH)
  /\ \A i \in 1..Len(LH_TRY_UMOUNT_PATH) :
       \E k \in 1..Len(reg_hist) :
         /\ reg_hist[k] = LH_TRY_UMOUNT_PATH[i]
         /\ \A j \in 1..(k - 1) :
              reg_hist[j].target_pathname # LH_TRY_UMOUNT_PATH[i].target_pathname

\* why a register call on the ledger fails, from its arguments and the ledger before it
FailureCause(c) ==
  IF ~c.arg.copy_ok THEN "copy"
  ELSE IF \E i \in 1..Len(c.before) : c.before[i].target_pathname = c.arg.info.target_pathname
    THEN "duplicate"
  ELSE IF ~c.arg.alloc_ok THEN "alloc"
  ELSE "none"

C13_UnsupportedModeSkipped ==
  (ucall.op = "replay") =>
    \A i \in 1..Len(LH_TRY_UMOUNT_PATH) :
      LET r == LH_TRY_UMOUNT_PATH[i]
          issued == { k \in 1..Len(umount_log) : umount_log[k].mnt = r.target_pathname }
      IN IF r.mnt_mode \in {TRY_UMOUNT_DEFAULT, TRY_UMOUNT_DETACH}
         THEN Cardinality(issued) = 1
         ELSE issued = {}

\* a replay of three records, the middle one of unsupported mode
C13_Witness ==
  /\ ucall.op = "replay"
  /\ Len(LH_TRY_UMOUNT_PATH) = 3
  /\ LH_TRY_UMOUNT_PATH[2].mnt_mode \notin {TRY_UMOUNT_DEFAULT, TRY_UMOUNT_DETACH}
  /\ Len(umount_log) = 2
  /\ umount_log[1].mnt = LH_TRY_UMOUNT_PATH[3].target_pathname
  /\ umount_log[2].mnt = LH_TRY_UMOUNT_PATH[1].target_pathname

\* the positions of the records of a pathname in the path registry
RecordsOf(pathname) ==
  { i \in 1..Len(SUS_PATH_HLIST) : SUS_PATH_HLIST[i].target_pathname = pathname }

\* C14: while every register call on the path registry has succeeded, each registered
\* pathname has exactly one live record, that of its latest registration, no other
\* pathname has a record, the object each record was made for carries the concealment
\* bit, and setting a bit that is already set changes no bit.
C14_OneRecordPerPathname ==
  ~path_failed =>
    /\ \A p \in SusPaths :
         Cardinality(RecordsOf(p)) = (IF p \in path_regs THEN 1 ELSE 0)
    /\ \A i \in 1..Len(SUS_PATH_HLIST) : SUS_PATH_HLIST[i].obj \in sus_path_inodes
    /\ (pcall.op = "add") =>
         /\ \E i \in RecordsOf(pcall.arg.info.target_pathname) :
              SUS_PATH_HLIST[i] = new_sus_path_entry(pcall.arg.info, pcall.arg.res)
         /\ pcall.arg.res.obj \in pcall.inodes_before => sus_path_inodes = pcall.inodes_before

\* a pathname registered again, resolving to an object that already carries the bit
C14_Witness ==
  /\ ~path_failed
  /\ pcall.op = "add"
  /\ \E i \in 1..Len(pcall.before) :
       /\ pcall.before[i].target_pathname = pcall.arg.info.target_pathname
       /\ pcall.before[i].target_ino # pcall.arg.info.target_ino
  /\ pcall.arg.res.obj \in pcall.inodes_before
  /\ Len(SUS_PATH_HLIST) = NumSusPaths

\* every thread's call has returned 0 and no two threads named the same pathname
AllRegisteredDistinct ==
  /\ \A t \in Threads : Done(t) /\ thr[t].op = "sus_path" /\ thr[t].ret = 0
  /\ \A t, u \in Threads :
       t # u => thr[t].info.target_pathname # thr[u].info.target_pathname

\* C15: when every thread has registered a pathname of its own, however the calls
\* interleave, the registry holds exactly one record per thread, each with the
\* pathname and the inode value its caller supplied.
C15_ConcurrentDistinctAllPresent ==
  AllRegisteredDistinct =>
    /\ Len(SUS_PATH_HLIST) = NumThreads
    /\ \A t \in Threads :
         Cardinality({ i \in 1..Len(SUS_PATH_HLIST) : SUS_PATH_HLIST[i] = thr[t].entry }) = 1
    /\ \A t \in Threads :
         /\ thr[t].entry.target_pathname = thr[t].info.target_pathname
         /\ thr[t].entry.target_ino = thr[t].info.target_ino

\* all threads have registered distinct pathnames, the last thread's record linked first
C15_Witness ==
  /\ AllRegisteredDistinct
  /\ SUS_PATH_HLIST[NumThreads] = thr[NumThreads].entry

\* C16: a failed register call on the path registry returns 1 and leaves the live
\* records and every concealment bit as they were before the call.
C16_FailureLeavesNoChange ==
  (pcall.op = "add" /\ pcall.ret # 0) =>
    /\ pcall.ret = 1
    /\ SUS_PATH_HLIST = pcall.before
    /\ sus_path_inodes = pcall.inodes_before

\* C17: after a successful register call, whatever inode value the caller passed, the
\* concealment query is true for the inode id of the object the pathname resolved to
\* and false for the id of every object no record was made for.
C17_KeyedByResolvedObject ==
  (pcall.op = "add" /\ pcall.ret = 0) =>
    /\ susfs_sus_ino_for_filldir64(i_ino(pcall.arg.res.obj)) = 1
    /\ \A o \in Objs :
         (\A i \in 1..Len(SUS_PATH_HLIST) : SUS_PATH_HLIST[i].obj # o)
           => susfs_sus_ino_for_filldir64(i_ino(o)) = 0

\* C18: a register call for a pathname that resolves to tmpfs or fuse returns 1, sets
\* no concealment bit and adds no record.
C18_TmpfsFuseRefused ==
  (pcall.op = "add" /\ pcall.arg.res.fs \in {"tmpfs", "fuse"}) =>
    /\ pcall.ret = 1
    /\ sus_path_inodes = pcall.inodes_before
    /\ pcall.arg.res.obj \notin sus_path_inodes
    /\ \A i \in 1..Len(SUS_PATH_HLIST) :
         \E j \in 1..Len(pcall.before) : SUS_PATH_HLIST[i] = pcall.before[j]

\* a call that copied its input and allocated its record, refused for a fuse pathname
C18_Witness ==
  /\ pcall.op = "add" /\ pcall.arg.copy_ok /\ pcall.arg.alloc_ok
  /\ pcall.arg.res.fs = "fuse"
  /\ pcall.ret = 1
  /\ RecordsOf(pcall.arg.info.target_pathname) = {}

\* C19: the mount registry never holds two records of one pathname, and a register
\* call for a pathname that has a record overwrites that record where it stands:
\* same position, same length, the other records untouched.
C19_MountOneRecordPerPathname ==
  /\ NoDuplicatePathnames(LH_SUS_MOUNT)
  /\ (mcall.op = "add" /\ mcall.arg.copy_ok) =>
       LET k == FirstWithPathname(mcall.before, mcall.arg.info.target_pathname) IN
       (k # 0) =>
         /\ mcall.ret = 0
         /\ Len(LH_SUS_MOUNT) = Len(mcall.before)
         /\ LH_SUS_MOUNT[k] = decoded_info(mcall.arg.info)
         /\ \A i \in 1..Len(mcall.before) : i # k => LH_SUS_MOUNT[i] = mcall.before[i]

\* C20: a register call that reaches the concealment step for a pathname resolving to
\* an object sets the object's bit when the mount's peer group id is 0 or at least
\* the reserved threshold, and sets no bit when the id lies strictly between, whether
\* the pathname is new or already has a record.
C20_PeerGroupThreshold ==
  (mcall.op = "add" /\ mcall.ret = 0 /\ mcall.arg.res.kind = "ok") =>
    LET g == mcall.arg.res.gid IN
    IF g = 0 \/ g >= DEFAULT_SUS_MNT_GROUP_ID
    THEN sus_mount_inodes = mcall.inodes_before \cup {mcall.arg.res.obj}
    ELSE sus_mount_inodes = mcall.inodes_before

\* a pathname registered again while its mount has peer group id 5: the record is
\* rewritten and the object stays unmarked
C20_Witness ==
  /\ mcall.op = "add" /\ mcall.ret = 0 /\ mcall.arg.res.kind = "ok"
  /\ mcall.arg.res.gid = 5
  /\ FirstWithPathname(mcall.before, mcall.arg.info.target_pathname) # 0
  /\ mcall.arg.res.obj \notin sus_mount_inodes

\* the last mount-registry call got as far as the concealment step
ReachedMountInode ==
  /\ mcall.op = "add" /\ mcall.arg.copy_ok
  /\ \/ FirstWithPathname(mcall.before, mcall.arg.info.target_pathname) # 0
     \/ mcall.arg.alloc_ok

\* the pathname of the last mount-registry call got no concealment: lookup failed, no
\* inode, or a peer group id below the threshold
ConcealmentSkipped ==
  \/ mcall.arg.res.kind \in {"error", "negative"}
  \/ mcall.arg.res.gid > 0 /\ mcall.arg.res.gid < DEFAULT_SUS_MNT_GROUP_ID

\* C21: a mount register call whose pathname cannot be resolved, or whose concealment
\* is refused, still returns 0 and still holds the caller's record for the pathname
\* (appended, or overwritten where it stood), and no concealment bit has changed.
C21_UnresolvedMountStillRecorded ==
  (ReachedMountInode /\ ConcealmentSkipped) =>
    /\ mcall.ret = 0
    /\ sus_mount_inodes = mcall.inodes_before
    /\ LET k == FirstWithPathname(LH_SUS_MOUNT, mcall.arg.info.target_pathname) IN
       /\ k # 0
       /\ LH_SUS_MOUNT[k] = decoded_info(mcall.arg.info)
       /\ Len(LH_SUS_MOUNT) =
            Len(mcall.before)
              + (IF FirstWithPathname(mcall.before, mcall.arg.info.target_pathname) # 0
                 THEN 0 ELSE 1)

\* a pathname that cannot be looked up is appended to a registry of one record
C21_Witness ==
  /\ ReachedMountInode
  /\ mcall.arg.res.kind = "error"
  /\ Len(mcall.before) = 1
  /\ Len(LH_SUS_MOUNT) = 2
  /\ mcall.ret = 0

\* what the identity record holds for a field after apply(): the live value when the
\* field was set to "default", the given value otherwise
Expected(given, live) == IF given = DEFAULT THEN live ELSE given

\* C23: after a set call has returned 0, apply() leaves in the identity record, for
\* release and for version independently, the live system value when the field was
\* given as "default" and the given value otherwise; never the text "default".
C23_DefaultMeansLiveValue ==
  (ncall.op = "spoof" /\ uname_set.op = "set") =>
    /\ ncall.out.release = Expected(uname_set.info.release, SysRelease)
    /\ ncall.out.version = Expected(uname_set.info.version, SysVersion)
    /\ ncall.out.release # DEFAULT
    /\ ncall.out.version # DEFAULT

\* the reader returned at its test, leaving the record as it was
Skipped(t) == Done(t) /\ thr[t].op = "spoof_uname" /\ ~thr[t].copied
\* the reader went on to copy
Copied(t) == Done(t) /\ thr[t].op = "spoof_uname" /\ thr[t].copied

\* C24: apply() leaves the identity record unchanged exactly when, at its test, no
\* set call had returned 0 since initialization or a writer held the lock; otherwise
\* the record holds both fields of the store as it stood at the test.
C24_ApplySkipsOnlyEmptyOrLocked ==
  \A t \in Threads :
    /\ Skipped(t) => (thr[t].tmp = LiveUname /\ (~thr[t].at.set \/ thr[t].at.locked))
    /\ Copied(t) => (/\ thr[t].at.set /\ ~thr[t].at.locked
                     /\ thr[t].tmp = thr[t].at.uname)

\* the thread's next step looks a pathname up (kern_path)
Resolving(t) == thr[t].pc \in {"sp_update", "sm_inode", "sm_locked"}

\* C26: no thread holds the registry lock at a step that looks the pathname up.
C26_NoResolutionUnderLock ==
  \A t \in Threads : Resolving(t) => susfs_spin_lock # t

\* a lookup that is part-way through the path registry holds the registry lock
ScanHoldsLock == \A t \in Threads : thr[t].pc = "fd_visit" => susfs_spin_lock = t

\* the record a lookup is about to visit has not been unlinked and freed
NoFreedRecordVisited == \A t \in Threads : thr[t].pc = "fd_visit" => Live(thr[t].entry)

\* C27: every scan of the registry runs under the registry lock, and no scan visits a
\* record that a re-registration has unlinked and freed.
C27_ScansHoldLock == ScanHoldsLock /\ NoFreedRecordVisited

\* C28: in every state, calls in progress included, the object each live record of the
\* path registry was made for carries the concealment bit, and so does the object of
\* every record that is filled and waiting to be linked.
C28_RecordOnlyAfterBit ==
  /\ \A i \in 1..Len(SUS_PATH_HLIST) : SUS_PATH_HLIST[i].obj \in sus_path_inodes
  /\ \A t \in Threads : thr[t].pc = "sp_add" => thr[t].entry.obj \in sus_path_inodes

\* one thread's record is linked while another thread's record, for another object,
\* is filled and waiting
C28_Witness ==
  /\ Len(SUS_PATH_HLIST) = 1
  /\ \E t \in Threads :
       /\ thr[t].pc = "sp_add"
       /\ thr[t].entry.obj # SUS_PATH_HLIST[1].obj

\* the handler call got as far as reading the caller's path
ReachedRead ==
  /\ call.op \in {"faccessat", "stat", "execve"}
  /\ call.enabled /\ call.allowed /\ ~call.req.fu_null

\* C29: the read of the caller's path runs the slow copy exactly when the fast read
\* faulted, and fails exactly when both faulted; a call whose read failed passes the
\* request through.
C29_FastThenSlow ==
  ReachedRead =>
    LET rd == ksu_copy_from_user_retry(call.req.mem, sizeof_path)
        fast == ksu_copy_from_user_nofault(call.req.mem, sizeof_path)
        slow == copy_from_user(call.req.mem, sizeof_path)
    IN /\ rd.slow <=> (fast.ret # 0)
       /\ (rd.ret # 0) <=> (fast.ret # 0 /\ slow.ret # 0)
       /\ (fast.ret = 0) => (rd.dst = fast.dst /\ ~rd.slow)
       /\ (fast.ret # 0 /\ slow.ret = 0) => rd.dst = slow.dst
       /\ (rd.ret # 0) => (call.out.filename = call.req.ptr /\ ~call.out.escalated)

\* the trigger path in memory that is readable but not resident: the fast read faults,
\* the slow copy succeeds and the call is rewritten
C29_Witness ==
  /\ ReachedRead
  /\ call.req.mem.str = SU_PATH
  /\ ~call.req.mem.resident
  /\ call.req.mem.mapped >= sizeof_path
  /\ call.out.filename = "ustack"

\* what the struct filename handler does with the path of the execve call at hand, for
\* the same caller, while the flag and the allow-list stand as they did for that call
ExecveatOnSamePath ==
  ksu_handle_execveat_sucompat(
    [uid |-> call.req.uid, fp_null |-> FALSE, is_err |-> FALSE, name |-> call.req.mem.str])

\* C30: for the same flag, caller and target path the execve handler and the struct
\* filename execveat handler decide alike: both leave the target untouched without
\* escalating, or both rewrite it to the helper's path and escalate.
C30_ExecveAgreesWithExecveat ==
  (/\ call.op = "execve" /\ ValidString(call.req)
   /\ call.enabled = ksu_sucompat_non_kp
   /\ call.allowed = ksu_is_allow_uid(call.req.uid)) =>
    \/ /\ Untouched /\ ~call.out.escalated
       /\ ExecveatOnSamePath.name = call.req.mem.str /\ ~ExecveatOnSamePath.escalated
    \/ /\ PointsTo(KSUD_PATH) /\ call.out.escalated
       /\ ExecveatOnSamePath.name = KSUD_PATH /\ ExecveatOnSamePath.escalated

RegisterOps ==
  {"susfs_add_sus_path", "susfs_add_sus_mount", "susfs_add_try_umount", "susfs_set_uname"}

\* C22: a registration call of any of the four operations whose input copy fails
\* returns 1 and leaves the registries, the concealment bits and the spoofing store as
\* they were.
C22_CopyFailureChangesNothing ==
  \A t \in Threads :
    (Done(t) /\ thr[t].op \in RegisterOps /\ ~thr[t].arg.copy_ok) =>
      (thr[t].ret = 1 /\ thr[t].post = thr[t].pre)

\* a registration of one operation went through and a call of another operation then
\* failed to copy its input
C22_Witness ==
  \E t, u \in Threads :
    /\ Done(t) /\ thr[t].op = "susfs_add_sus_path" /\ thr[t].ret = 0
    /\ Done(u) /\ thr[u].op = "susfs_set_uname" /\ ~thr[u].arg.copy_ok
    /\ thr[u].pre.sus_path # <<>>

\* no registration call has been made
NoRegistration == \A t \in Threads : thr[t].pc = "idle" \/ thr[t].op \notin RegisterOps

\* a registration call of the operation returned 0
Registered(op, t) == Done(t) /\ thr[t].op = op /\ thr[t].ret = 0

\* C25: until a registration call is made every registry is empty, every lookup
\* answers 0, a replay issues no unmount and apply() leaves the identity record as it
\* was; and whatever a registry holds was put there by a registration call that
\* returned 0.
C25_EmptyUntilRegistered ==
  /\ NoRegistration =>
       /\ SUS_PATH_HLIST = <<>> /\ sus_path_inodes = {}
       /\ LH_SUS_MOUNT = <<>> /\ sus_mount_inodes = {}
       /\ LH_TRY_UMOUNT_PATH = <<>> /\ my_uname = ZeroUname
       /\ \A o \in Objs : susfs_sus_ino_for_filldir64(i_ino(o)) = 0
       /\ \A t \in Threads :
            Done(t) =>
              /\ thr[t].op = "susfs_sus_ino_for_filldir64" => thr[t].ret = 0
              /\ thr[t].op = "susfs_try_umount" => thr[t].ret = <<>>
              /\ thr[t].op = "susfs_spoof_uname" => thr[t].ret = thr[t].arg
  /\ \A i \in 1..Len(SUS_PATH_HLIST) :
       \E t \in Threads :
         /\ Registered("susfs_add_sus_path", t)
         /\ SUS_PATH_HLIST[i] = new_sus_path_entry(thr[t].arg.info, thr[t].arg.res)
  /\ \A i \in 1..Len(LH_SUS_MOUNT) :
       \E t \in Threads :
         /\ Registered("susfs_add_sus_mount", t)
         /\ LH_SUS_MOUNT[i] = decoded_info(thr[t].arg.info)
  /\ \A i \in 1..Len(LH_TRY_UMOUNT_PATH) :
       \E t \in Threads :
         /\ Registered("susfs_add_try_umount", t)
         /\ LH_TRY_UMOUNT_PATH[i] = thr[t].arg.info
  /\ my_uname # ZeroUname => \E t \in Threads : Registered("susfs_set_uname", t)

\* every thread has made a reading call and none a registration: a replay and an apply
C25_Witness ==
  /\ \A t \in Threads : Done(t)
  /\ NoRegistration
  /\ \E t \in Threads : thr[t].op = "susfs_try_umount"
  /\ \E t \in Threads : thr[t].op = "susfs_spoof_uname"

\* C31: whenever the execve handler has raised the caller's credentials, the caller's
\* target pointer refers to the helper's path.
C31_EscalationImpliesRewrite ==
  (call.op = "execve" /\ call.out.escalated) => PointsTo(KSUD_PATH)

\* the conditions under which __ksu_handle_devpts assigns the tag
DevptsConditions ==
  /\ call.enabled
  /\ call.req.has_mm
  /\ call.req.uid % 100000 >= 10000
  /\ call.allowed
  /\ call.req.ksu_devpts_sid # 0

\* C35: __ksu_handle_devpts changes the inode's tag only when interception is enabled,
\* the caller has an address space, its identity modulo 100000 is at least 10000, it
\* is allow-listed and a tag is configured, and then the inode's security struct, if
\* it has one, gets the configured tag; in every other case the tag stays as it was,
\* and ksu_handle_devpts never changes it.
C35_DevptsTagOnlyForAllowedApps ==
  /\ (call.op = "__devpts") =>
       IF DevptsConditions /\ ~call.req.sec_null
       THEN call.out.sid = call.req.ksu_devpts_sid
       ELSE call.out.sid = call.req.sid
  /\ (call.op = "devpts") => call.out.sid = call.req.sid
  /\ (call.op \in {"devpts", "__devpts"}) => call.out.ret = 0

\* an allow-listed application identity of a secondary user gets the configured tag
C35_Witness ==
  /\ call.op = "__devpts"
  /\ DevptsConditions
  /\ call.req.uid >= 100000
  /\ call.out.sid = call.req.ksu_devpts_sid
  /\ call.out.sid # call.req.sid

\* C33: on every return of susfs_update_sus_path_inode and of
\* susfs_update_sus_mount_inode the path references handed out by kern_path are
\* released by as many path_put calls, the peer-group refusal included.
C33_ResolutionsReleased ==
  /\ \A res \in Resolutions :
       susfs_update_sus_path_inode_path_put(res) = kern_path(res)
  /\ ReachedMountInode =>
       susfs_update_sus_mount_inode_path_put(mcall.arg.res) = kern_path(mcall.arg.res)

\* C34: no step of any operation of the subsystem takes INODE_STATE_SUS_PATH or
\* INODE_STATE_SUS_MOUNT off an object that carries it.
C34_ConcealmentBitsMonotonic ==
  [][/\ sus_path_inodes \subseteq sus_path_inodes'
     /\ sus_mount_inodes \subseteq sus_mount_inodes']_vars

\* a registration failed after unlinking the pathname's record, and the object still
\* carries the bit
C34_Witness ==
  \E t \in Threads :
    /\ thr[t].pc = "done"
    /\ thr[t].op = "susfs_add_sus_path"
    /\ thr[t].ret = 1
    /\ thr[t].pre.sus_path # <<>>
    /\ thr[t].post.sus_path = <<>>
    /\ thr[t].pre.sus_path_inodes # {}
    /\ thr[t].pre.sus_path_inodes \subseteq sus_path_inodes

\* C32: the (release, version) pair that apply() has written into the caller's record
\* is the pair stored by one single set call: one that had completed when apply()
\* made its test, one that completed during the copy, or one that held the lock when
\* the copy ended.
C32_NoTornIdentity ==
  \A t \in Threads :
    Copied(t) => thr[t].tmp \in thr[t].whole

====
